---- MODULE Spec2Model ----
(***************************************************************************)
(* Runtime theme-state holder of the portfolio site (ThemeManager) and the *)
(* utilities around it.  JavaScript strings are sequences of one-character *)
(* strings so that prefix tests, replacement and the allow-list filter are *)
(* computed character by character.                                        *)
(***************************************************************************)
EXTENDS Integers, Sequences, FiniteSets, TLC

\* ------------------------------------------------------------------ bounds
\* Longest theme id generated over Sigma as an input of the setters.
MaxIdLen == 1

\* ------------------------------------------------------- JavaScript values
LowerCase == {"a","b","c","d","e","f","g","h","i","j","k","l","m",
              "n","o","p","q","r","s","t","u","v","w","x","y","z"}
UpperCase == {"A","B","C","D","E","F","G","H","I","J","K","L","M",
              "N","O","P","Q","R","S","T","U","V","W","X","Y","Z"}
Digits == {"0","1","2","3","4","5","6","7","8","9"}

\* The characters kept by /[^a-zA-Z0-9-_]/g.
AllowedChars == LowerCase \cup UpperCase \cup Digits \cup {"-", "_"}

\* ASCII whitespace, which DOMTokenList.add refuses inside a token.
Whitespace == {" "}

\* Characters the generated inputs are built from: one allowed character,
\* one disallowed punctuation character and one whitespace character.
Sigma == {"a", ";", " "}

RECURSIVE StringsUpTo(_)
StringsUpTo(n) ==
    IF n = 0 THEN {<< >>}
    ELSE LET shorter == StringsUpTo(n - 1)
         IN  shorter \cup {Append(s, c) : s \in shorter, c \in Sigma}

\* A JavaScript value: its type tag and its string conversion.
Str(s) == [t |-> "string", s |-> s]
JsNull == [t |-> "null", s |-> <<"n","u","l","l">>]
JsUndefined == [t |-> "undefined", s |-> <<"u","n","d","e","f","i","n","e","d">>]
JsZero == [t |-> "number", s |-> <<"0">>]
JsSeven == [t |-> "number", s |-> <<"7">>]

\* String(v), as a template literal and Storage.setItem convert a value.
JsString(v) == v.s

\* ToBoolean(v): null, undefined, 0 and the empty string are falsy.
Truthy(v) ==
    CASE v.t = "string" -> v.s # << >>
      [] v.t = "number" -> v.s # <<"0">>
      [] OTHER -> FALSE

DEFAULT == <<"d","e","f","a","u","l","t">>
DARK == <<"d","a","r","k">>
LIGHT == <<"l","i","g","h","t">>
OCEAN_BLUE == <<"o","c","e","a","n","-","b","l","u","e">>
FOREST_GREEN == <<"f","o","r","e","s","t","-","g","r","e","e","n">>
CATPPUCCIN_LATTE == <<"c","a","t","p","p","u","c","c","i","n","-","l","a","t","t","e">>
CATPPUCCIN_MOCHA == <<"c","a","t","p","p","u","c","c","i","n","-","m","o","c","h","a">>

\* The ids of the themes the site ships.
themeHues == {DEFAULT, OCEAN_BLUE, FOREST_GREEN, CATPPUCCIN_LATTE, CATPPUCCIN_MOCHA}

THEME_PREFIX == <<"t","h","e","m","e","-">>
THEME_DARK == THEME_PREFIX \o DARK

\* String.prototype.startsWith
StartsWith(s, p) == Len(s) >= Len(p) /\ SubSeq(s, 1, Len(p)) = p

\* String.prototype.replace(p, r) with a string pattern: the first
\* occurrence of p, wherever it is, is replaced.
Replace(s, p, r) ==
    LET hits == {i \in 1..(Len(s) - Len(p) + 1) : SubSeq(s, i, i + Len(p) - 1) = p}
    IN  IF hits = {} THEN s
        ELSE LET i == CHOOSE j \in hits : \A k \in hits : j <= k
             IN  SubSeq(s, 1, i - 1) \o r \o SubSeq(s, i + Len(p), Len(s))

\* A filter that lets the punctuation of markup through.
Sanitize_keepsPunctuation(s) ==
    SelectSeq(s, LAMBDA c : c \in AllowedChars \cup {";", "<", ">", "/"})

\* themeId.replace(/[^a-zA-Z0-9-_]/g, '')
Sanitize(s) == SelectSeq(s, LAMBDA c : c \in AllowedChars)

\* ------------------------------------------------------------ DOMTokenList
Contains(cl, tok) == \E i \in DOMAIN cl : cl[i] = tok
Remove(cl, tok) == SelectSeq(cl, LAMBDA c : c # tok)
\* add() throws on an empty token or one that holds whitespace.
AddThrows(tok) == tok = << >> \/ \E i \in DOMAIN tok : tok[i] \in Whitespace
Add(cl, tok) == IF Contains(cl, tok) THEN cl ELSE Append(cl, tok)
Toggle(cl, tok, force) == IF force THEN Add(cl, tok) ELSE Remove(cl, tok)

\* cls.startsWith('theme-') && cls !== 'theme-dark'
IsColorThemeClass(cls) == StartsWith(cls, THEME_PREFIX) /\ cls # THEME_DARK

\* ----------------------------------------------------------------- storage
NoItem == [has |-> FALSE, s |-> << >>]
Item(s) == [has |-> TRUE, s |-> s]

\* ------------------------------------------------------------------- state
VARIABLES
    revision,     \* which ThemeManager file the page loads
    storageMode,  \* how localStorage behaves in this browser
    instance,     \* ThemeManager.instance is set
    state,        \* ThemeManager.state
    classList,    \* document.documentElement.classList, in token order
    storage,      \* localStorage entries 'theme' and 'selected-theme'
    observing,    \* the MutationObserver on the root element is registered
    pending,      \* a class mutation record waits for the observer callback
    lastCall,     \* the last operation, the events it dispatched, its outcome
    refs,         \* the objects code outside the holder has been handed
    loadedTheme,  \* the Theme handed to the validator
    result,       \* what validateTheme returned for it
    pair,         \* a foreground and a background color handed to checkContrast
    probe,        \* what became of that pair: its ratio, errors and warnings
    subjects,     \* the theme records handed to the CSS generator
    gen,          \* the generator's calls so far and what they returned
    themeFiles,   \* the files of the themes directory, as the build finds them
    build,        \* the build script: where it is, its text so far, its outcome
    palette,      \* a call of generateIntelligentColorPalette and how far it is
    layout        \* a call of createThemedLayout: its argument and its result

holderVars == <<revision, storageMode, instance, state, classList, storage,
                observing, pending, lastCall, refs>>
validatorVars == <<loadedTheme, result, pair, probe>>
generatorVars == <<subjects, gen, themeFiles, build>>
plotlyVars == <<palette, layout>>
vars == <<revision, storageMode, instance, state, classList, storage,
          observing, pending, lastCall, refs, loadedTheme, result, pair, probe,
          subjects, gen, themeFiles, build, palette, layout>>

\* "markup": part_008 (mirrors the page markup, sanitizes, wraps storage);
\* "stored": part_000 (reads storage first, pushes it into the markup).
Revisions == {"markup", "stored"}

\* "ok": storage works; "undefined": typeof localStorage is 'undefined';
\* "quota": setItem throws; "denied": reading the localStorage global throws.
StorageModes == {"ok", "undefined", "quota", "denied"}

\* private state: ThemeState = { colorTheme: 'default', darkMode: false }
InitialState == [colorTheme |-> Str(DEFAULT), darkMode |-> FALSE]

\* Root element classes the page markup can carry before the holder runs.
OTHER_CLASS == <<"j","s">>
InitialMarkups ==
    { << >>,
      <<THEME_PREFIX \o DEFAULT>>,
      <<THEME_DARK, THEME_PREFIX \o DEFAULT>>,
      <<THEME_PREFIX \o OCEAN_BLUE, THEME_DARK>>,
      <<THEME_DARK>>,
      <<OTHER_CLASS, THEME_PREFIX \o DEFAULT>> }

InitialStorage ==
    [theme : {NoItem, Item(DARK), Item(LIGHT)},
     selected : {NoItem, Item(OCEAN_BLUE)}]

EVIL == <<"e","v","i","l",";","<","/","s","t","y","l","e",">">>
StringInputs == {Str(s) : s \in StringsUpTo(MaxIdLen) \cup {DEFAULT, OCEAN_BLUE, DARK, EVIL}}
NonStringInputs == {JsNull, JsUndefined, JsZero, JsSeven}
Inputs == StringInputs \cup NonStringInputs
\* The ids callers of the legacy helper applyTheme pass.
LegacyInputs == {Str(OCEAN_BLUE), Str(DEFAULT)}
\* The ids callers of the themes utility pass to applyTheme.
UtilityInputs == {Str(OCEAN_BLUE), Str(DARK), Str(EVIL), Str(<<" ">>)}

\* An object reference held outside the holder: nothing yet, an object of
\* its own with its own field values, or the holder's this.state itself.
NoRef == [kind |-> "none", val |-> InitialState]
CopyOf(st) == [kind |-> "copy", val |-> st]
LiveRef == [kind |-> "live", val |-> InitialState]

\* What a 'theme-changed' listener finds when it is called: the state in
\* memory, the classes of the root element, the entries of localStorage.
NoHeard ==
    [state |-> InitialState, classList |-> << >>,
     storage |-> [theme |-> NoItem, selected |-> NoItem]]

\* The mutable world a method runs in, with what the call has done so far.
World ==
    [state |-> state, classList |-> classList, storage |-> storage,
     observing |-> observing, pending |-> pending, refs |-> refs,
     events |-> 0, threw |-> FALSE, heard |-> NoHeard]

\* An exception leaves the method: the statements after it do not run.
Throw(w) == [w EXCEPT !.threw = TRUE]

\* The validator before any call: no theme loaded, nothing returned.
Missing == << >>
GrayKeys == {"0", "200", "700", "800", "999"}
NoTheme ==
    [accent |-> [has |-> FALSE, light |-> Missing, regular |-> Missing, dark |-> Missing],
     gray |-> [has |-> FALSE, steps |-> [k \in GrayKeys |-> Missing]],
     charts |-> [has |-> FALSE, primary |-> << >>, categorical |-> << >>,
                 gradient |-> << >>]]
NoResult ==
    [isValid |-> FALSE, errors |-> << >>, warnings |-> << >>, checked |-> << >>,
     done |-> FALSE, threw |-> FALSE]
NoPair == [fg |-> Missing, bg |-> Missing]
NoProbe ==
    [done |-> FALSE, ratio |-> [n |-> 1, d |-> 1], errors |-> << >>, warnings |-> << >>,
     measured |-> FALSE, forward |-> [n |-> 1, d |-> 1], reverse |-> [n |-> 1, d |-> 1],
     same |-> [n |-> 1, d |-> 1]]
ValidatorIdle ==
    loadedTheme = NoTheme /\ result = NoResult /\ pair = NoPair /\ probe = NoProbe

\* The generator and the build script before any call.
NoOutput == [threw |-> FALSE, selector |-> << >>, decls |-> << >>]
NoGen ==
    [calls |-> 0, who |-> 0, again |-> FALSE, last |-> NoOutput,
     seen |-> <<FALSE, FALSE>>, first |-> <<NoOutput, NoOutput>>]
NoBuild == [pc |-> "idle", files |-> << >>, next |-> 1, blocks |-> << >>,
            written |-> FALSE, file |-> << >>, exitCode |-> 0]
GeneratorIdle ==
    subjects = << >> /\ gen = NoGen /\ themeFiles = << >> /\ build = NoBuild

\* The chart utilities before any call.
NoColors ==
    [accent |-> Missing, accentLight |-> Missing, accentDark |-> Missing,
     primary |-> << >>, categorical |-> << >>, gradient |-> << >>,
     textColor |-> Missing, backgroundColor |-> Missing, gridColor |-> Missing]
NoStrategy == [priority |-> "primary", colorIntensity |-> "normal"]
NoPalette ==
    [pc |-> "idle", colors |-> NoColors, strategy |-> NoStrategy, traceCount |-> 1,
     adjustedColors |-> << >>, neededColors |-> 0, out |-> << >>]
NoDocument == [server |-> TRUE, accents |-> << >>, chartColors |-> << >>,
               categorical |-> << >>, gradient |-> << >>, grays |-> << >>]
NoLayout == [done |-> FALSE, document |-> NoDocument, customLayout |-> << >>, out |-> << >>]
PlotlyIdle == palette = NoPalette /\ layout = NoLayout

Init ==
    /\ ValidatorIdle
    /\ GeneratorIdle
    /\ PlotlyIdle
    /\ revision \in Revisions
    /\ storageMode \in StorageModes
    /\ instance = FALSE
    /\ state = InitialState
    /\ classList \in InitialMarkups
    /\ storage \in InitialStorage
    /\ observing = FALSE
    /\ pending = FALSE
    /\ lastCall = [op |-> "none", events |-> 0, threw |-> FALSE, ret |-> FALSE,
                   theme |-> << >>, heard |-> NoHeard]
    /\ refs = [got |-> NoRef, detail |-> NoRef]

\* ------------------------------------------- ThemeManager, private methods
\* applyState(): toggle theme-dark, drop every color-theme class, add
\* theme-<colorTheme>.  Each DOMTokenList update queues a mutation record
\* when the observer is registered.
applyState(w) ==
    LET toggled == Toggle(w.classList, THEME_DARK, w.state.darkMode)
        cleared == SelectSeq(toggled, LAMBDA cls : ~IsColorThemeClass(cls))
        tok == THEME_PREFIX \o JsString(w.state.colorTheme)
        queued == w.pending \/ w.observing
    IN  IF AddThrows(tok)
        THEN Throw([w EXCEPT !.classList = cleared, !.pending = queued])
        ELSE [w EXCEPT !.classList = Add(cleared, tok), !.pending = queued]

\* The two setItem calls of persistState.
WriteBoth(w) ==
    [w EXCEPT !.storage =
        [theme |-> Item(IF w.state.darkMode THEN DARK ELSE LIGHT),
         selected |-> Item(JsString(w.state.colorTheme))]]

\* A persistState that forgets the 'selected-theme' entry.
persistState_themeOnly(w) ==
    IF storageMode = "ok"
    THEN [w EXCEPT !.storage.theme = Item(IF w.state.darkMode THEN DARK ELSE LIGHT)]
    ELSE w

\* persistState() of part_008: the typeof test and both writes sit inside
\* try/catch, so a failure leaves storage as it was and is not propagated.
persistState(w) ==
    IF storageMode = "ok" THEN WriteBoth(w) ELSE w

\* persistState() of part_000: no try/catch.
persistState_v1(w) ==
    CASE storageMode = "ok" -> WriteBoth(w)
      [] storageMode = "undefined" -> w
      [] OTHER -> Throw(w)

\* A dispatchEvents whose event carries a copy of the state.
dispatchEvents_copiesDetail(w) ==
    [w EXCEPT !.events = @ + 1, !.refs.detail = CopyOf(w.state),
              !.heard = [state |-> w.state, classList |-> w.classList,
                         storage |-> w.storage]]

\* dispatchEvents(): one 'theme-changed' event on the document, with
\* detail: this.state, the state object itself.  dispatchEvent runs the
\* listeners before it returns, so they find the world as it is here.
dispatchEvents(w) ==
    [w EXCEPT !.events = @ + 1, !.refs.detail = LiveRef,
              !.heard = [state |-> w.state, classList |-> w.classList,
                         storage |-> w.storage]]

\* A getState that hands out this.state.
getState_live(w) == [w EXCEPT !.refs.got = LiveRef]

\* getState(): return { ...this.state }, a new object with the two fields.
getState(w) == [w EXCEPT !.refs.got = CopyOf(w.state)]

\* A loadState that keeps the field initialiser of this.state.
loadState_keepsDefaults(w) == w

\* loadState() of part_008: mirror the classes of the root element.
loadState(w) ==
    LET cl == w.classList
        found == {i \in DOMAIN cl : IsColorThemeClass(cl[i])}
        first == CHOOSE i \in found : \A j \in found : i <= j
    IN  [w EXCEPT !.state =
            [darkMode |-> Contains(cl, THEME_DARK),
             colorTheme |-> IF found = {} THEN Str(DEFAULT)
                            ELSE Str(Replace(cl[first], THEME_PREFIX, << >>))]]

\* initializePostRender(): the typeof test is outside any try block.
initializePostRender(w) ==
    CASE storageMode = "denied" -> Throw(w)
      [] storageMode = "undefined" -> w
      [] OTHER -> [w EXCEPT !.observing = TRUE]

\* getStoredDarkMode() of part_000.
getStoredDarkMode(w, prefersDark) ==
    LET ambient == IF prefersDark THEN DARK ELSE LIGHT
    IN  IF storageMode = "undefined" THEN ambient
        ELSE IF w.storage.theme.has /\ w.storage.theme.s # << >>
             THEN w.storage.theme.s ELSE ambient

\* getStoredColorTheme() of part_000.
getStoredColorTheme(w) ==
    IF storageMode = "undefined" THEN DEFAULT
    ELSE IF w.storage.selected.has /\ w.storage.selected.s # << >>
         THEN w.storage.selected.s ELSE DEFAULT

\* loadState() of part_000: read storage (the localStorage global is read
\* outside any try block), then push the result into the markup.
loadState_v1(w, prefersDark) ==
    IF storageMode = "denied" THEN Throw(w)
    ELSE applyState([w EXCEPT !.state =
            [darkMode |-> getStoredDarkMode(w, prefersDark) = DARK,
             colorTheme |-> Str(getStoredColorTheme(w))]])

\* constructor of part_008.
constructor(w) == initializePostRender(loadState(w))

\* constructor of part_000.
constructor_v1(w, prefersDark) == loadState_v1(w, prefersDark)

\* -------------------------------------------- ThemeManager, public methods
\* A setColorTheme without the comparison with the current colorTheme.
setColorTheme_alwaysApplies(w, themeId) ==
    IF ~Truthy(themeId) \/ themeId.t # "string" THEN w
    ELSE LET applied == applyState([w EXCEPT !.state.colorTheme = Str(Sanitize(themeId.s))])
             persisted == IF applied.threw THEN applied ELSE persistState(applied)
         IN  IF persisted.threw THEN persisted ELSE dispatchEvents(persisted)

\* setColorTheme(themeId) of part_008.
setColorTheme(w, themeId) ==
    IF ~Truthy(themeId) \/ themeId.t # "string" THEN w
    ELSE LET sanitizedThemeId == Str(Sanitize(themeId.s))
         IN  IF w.state.colorTheme # sanitizedThemeId
             THEN LET applied == applyState([w EXCEPT !.state.colorTheme = sanitizedThemeId])
                      persisted == IF applied.threw THEN applied ELSE persistState(applied)
                  IN  IF persisted.threw THEN persisted ELSE dispatchEvents(persisted)
             ELSE w

\* setColorTheme(themeId) of part_000: no validation, no sanitizing.
setColorTheme_v1(w, themeId) ==
    IF w.state.colorTheme # themeId
    THEN LET applied == applyState([w EXCEPT !.state.colorTheme = themeId])
             persisted == IF applied.threw THEN applied ELSE persistState_v1(applied)
         IN  IF persisted.threw THEN persisted ELSE dispatchEvents(persisted)
    ELSE w

\* A setDarkMode that notifies before it updates the classes and storage.
setDarkMode_notifiesFirst(w, isDark) ==
    IF w.state.darkMode # isDark
    THEN LET notified == dispatchEvents([w EXCEPT !.state.darkMode = isDark])
             applied == applyState(notified)
         IN  IF applied.threw THEN applied ELSE persistState(applied)
    ELSE w

\* setDarkMode(isDark) of part_008.
setDarkMode(w, isDark) ==
    IF w.state.darkMode # isDark
    THEN LET applied == applyState([w EXCEPT !.state.darkMode = isDark])
             persisted == IF applied.threw THEN applied ELSE persistState(applied)
         IN  IF persisted.threw THEN persisted ELSE dispatchEvents(persisted)
    ELSE w

\* setDarkMode(isDark) of part_000.
setDarkMode_v1(w, isDark) ==
    IF w.state.darkMode # isDark
    THEN LET applied == applyState([w EXCEPT !.state.darkMode = isDark])
             persisted == IF applied.threw THEN applied ELSE persistState_v1(applied)
         IN  IF persisted.threw THEN persisted ELSE dispatchEvents(persisted)
    ELSE w

\* ---------------------------------------- themes utility (part_011:83-103)
\* applyTheme(themeId): works on the root element and on storage directly;
\* its 'theme-changed' event carries an object of its own, { themeId }.
applyTheme(w, themeId) ==
    LET cleared == SelectSeq(w.classList, LAMBDA cls : ~StartsWith(cls, THEME_PREFIX))
        tok == THEME_PREFIX \o JsString(themeId)
        queued == w.pending \/ w.observing
        save(v) == CASE storageMode = "ok" ->
                            [v EXCEPT !.storage.selected = Item(JsString(themeId))]
                     [] storageMode = "undefined" -> v
                     [] OTHER -> Throw(v)
    IN  IF AddThrows(tok)
        THEN Throw([w EXCEPT !.classList = cleared, !.pending = queued])
        ELSE LET saved == save([w EXCEPT !.classList = Add(cleared, tok), !.pending = queued])
             IN  IF saved.threw THEN saved ELSE [saved EXCEPT !.events = @ + 1]

\* ----------------------------------------------------------------- actions
\* The outcome of a call becomes the new state of the page.
Commit(w, op, ret) ==
    /\ state' = w.state
    /\ classList' = w.classList
    /\ storage' = w.storage
    /\ observing' = w.observing
    /\ pending' = w.pending
    /\ refs' = w.refs
    /\ UNCHANGED <<validatorVars, generatorVars, plotlyVars>>
    /\ lastCall' = [op |-> op, events |-> w.events, threw |-> w.threw, ret |-> ret,
                    theme |-> IF op = "getCurrentTheme" /\ ~w.threw
                              THEN JsString(w.state.colorTheme) ELSE << >>,
                    heard |-> w.heard]

\* A getInstance that runs the constructor on every call.
getInstance_constructsAgain(w, prefersDark) ==
    IF revision = "markup" THEN constructor(w)
    ELSE constructor_v1(w, prefersDark)

\* ThemeManager.getInstance(): constructs on first use only.
getInstance(w, prefersDark) ==
    IF instance THEN w
    ELSE IF revision = "markup" THEN constructor(w)
    ELSE constructor_v1(w, prefersDark)

\* When the constructor throws, the object is discarded and instance stays
\* unset; what the constructor already did to the root element stays done.
Discarded(w) == [w EXCEPT !.state = state, !.observing = observing]

GetInstance ==
    /\ \E prefersDark \in BOOLEAN :
         LET w == getInstance(World, prefersDark)
         IN  /\ instance' = (instance \/ ~w.threw)
             /\ Commit(IF w.threw THEN Discarded(w) ELSE w, "getInstance", FALSE)
    /\ UNCHANGED <<revision, storageMode>>

\* The legacy helpers getCurrentTheme() and getStoredTheme():
\* ThemeManager.getInstance().getCurrentColorTheme()
GetCurrentTheme ==
    /\ \E prefersDark \in BOOLEAN :
         LET w == getInstance(World, prefersDark)
         IN  /\ instance' = (instance \/ ~w.threw)
             /\ Commit(IF w.threw THEN Discarded(w) ELSE w, "getCurrentTheme", FALSE)
    /\ UNCHANGED <<revision, storageMode>>

\* The legacy helper applyTheme(themeId):
\* ThemeManager.getInstance().setColorTheme(themeId)
LegacyApplyTheme(themeId) ==
    /\ \E prefersDark \in BOOLEAN :
         LET got == getInstance(World, prefersDark)
             w == IF revision = "markup" THEN setColorTheme(got, themeId)
                  ELSE setColorTheme_v1(got, themeId)
         IN  /\ instance' = (instance \/ ~got.threw)
             /\ Commit(IF got.threw THEN Discarded(got) ELSE w, "legacyApplyTheme", FALSE)
    /\ UNCHANGED <<revision, storageMode>>

SetColorTheme(themeId) ==
    /\ instance
    /\ Commit(IF revision = "markup" THEN setColorTheme(World, themeId)
              ELSE setColorTheme_v1(World, themeId), "setColorTheme", FALSE)
    /\ UNCHANGED <<revision, storageMode, instance>>

SetDarkMode(isDark) ==
    /\ instance
    /\ Commit(IF revision = "markup" THEN setDarkMode(World, isDark)
              ELSE setDarkMode_v1(World, isDark), "setDarkMode", FALSE)
    /\ UNCHANGED <<revision, storageMode, instance>>

\* toggleDarkMode(): this.setDarkMode(!this.state.darkMode); return this.state.darkMode
ToggleDarkMode ==
    /\ instance
    /\ LET w == IF revision = "markup" THEN setDarkMode(World, ~state.darkMode)
                ELSE setDarkMode_v1(World, ~state.darkMode)
       IN  Commit(w, "toggleDarkMode", IF w.threw THEN FALSE ELSE w.state.darkMode)
    /\ UNCHANGED <<revision, storageMode, instance>>

\* A caller of the themes utility changes the theme behind the holder.
ApplyTheme(themeId) ==
    /\ Commit(applyTheme(World, themeId), "applyTheme", FALSE)
    /\ UNCHANGED <<revision, storageMode, instance>>

\* The MutationObserver callback of initializePostRender: persistState().
ObserverCallback ==
    /\ pending
    /\ Commit(persistState([World EXCEPT !.pending = FALSE]), "observer", FALSE)
    /\ UNCHANGED <<revision, storageMode, instance>>

Next ==
    \/ GetInstance
    \/ \E themeId \in Inputs : SetColorTheme(themeId)
    \/ \E isDark \in BOOLEAN : SetDarkMode(isDark)
    \/ ToggleDarkMode
    \/ \E themeId \in UtilityInputs : ApplyTheme(themeId)
    \/ ObserverCallback
    \/ GetCurrentTheme
    \/ \E themeId \in LegacyInputs : LegacyApplyTheme(themeId)

Spec == Init /\ [][Next]_vars

\* ------------------------------------------- objects handed to outside code
\* const s = ThemeManager.getInstance().getState()
GetState ==
    /\ instance
    /\ Commit(getState(World), "getState", FALSE)
    /\ UNCHANGED <<revision, storageMode, instance>>

\* An assignment to a field of an object: it lands in the holder's state
\* when the object is this.state, in the object's own fields otherwise.
Assign(w, which, field, value) ==
    IF w.refs[which].kind = "live"
    THEN [w EXCEPT !.state[field] = value]
    ELSE [w EXCEPT !.refs[which].val[field] = value]

FieldOf(w, which, field) ==
    IF w.refs[which].kind = "live" THEN w.state[field] ELSE w.refs[which].val[field]

\* What outside code writes into a state object it holds.
Overwrites(w, which) ==
    {Assign(w, which, "colorTheme", Str(FOREST_GREEN)),
     Assign(w, which, "colorTheme", Str(DEFAULT)),
     Assign(w, which, "darkMode", ~FieldOf(w, which, "darkMode"))}

\* The caller writes into the object getState() returned.
MutateReturned ==
    /\ refs.got.kind # "none"
    /\ \E w \in Overwrites(World, "got") : Commit(w, "mutateReturned", FALSE)
    /\ UNCHANGED <<revision, storageMode, instance>>

\* A 'theme-changed' listener writes into event.detail.
MutateDetail ==
    /\ refs.detail.kind # "none"
    /\ \E w \in Overwrites(World, "detail") : Commit(w, "mutateDetail", FALSE)
    /\ UNCHANGED <<revision, storageMode, instance>>

\* Pages whose storage works, with outside code holding state objects.
InitRefs == Init /\ storageMode = "ok" /\ storage.selected = NoItem

NextRefs ==
    \/ GetInstance
    \/ \E themeId \in {Str(OCEAN_BLUE)} : SetColorTheme(themeId)
    \/ ToggleDarkMode
    \/ GetState
    \/ MutateReturned
    \/ MutateDetail

SpecRefs == InitRefs /\ [][NextRefs]_vars

\* ======================================================= theme validation
\* ------------------------------------------------ colors (part_004:23-73)
\* A color is a JavaScript string, a sequence of characters; the empty
\* sequence (Missing) also stands for a field that is undefined, which every
\* test of the validator (!x, x || fallback, the regular expression) treats
\* alike.
HexChars == <<"0","1","2","3","4","5","6","7","8","9","a","b","c","d","e","f">>
HexCharsUpper == <<"0","1","2","3","4","5","6","7","8","9","A","B","C","D","E","F">>

\* The character class [a-f\d] under the i flag.
IsHexChar(ch) == \E i \in DOMAIN HexChars : ch = HexChars[i] \/ ch = HexCharsUpper[i]

\* parseInt(pair, 16) of two characters of that class.
HexValue(ch) == (CHOOSE i \in DOMAIN HexChars : ch = HexChars[i] \/ ch = HexCharsUpper[i]) - 1
ParseHexPair(hi, lo) == 16 * HexValue(hi) + HexValue(lo)

NoRgb == [ok |-> FALSE, r |-> 0, g |-> 0, b |-> 0]

\* hexToRgb(hex): /^#?([a-f\d]{2})([a-f\d]{2})([a-f\d]{2})$/i, null otherwise.
hexToRgb(hex) ==
    LET digits == IF Len(hex) > 0 /\ Head(hex) = "#" THEN Tail(hex) ELSE hex
    IN  IF Len(digits) = 6 /\ \A i \in 1..6 : IsHexChar(digits[i])
        THEN [ok |-> TRUE,
              r |-> ParseHexPair(digits[1], digits[2]),
              g |-> ParseHexPair(digits[3], digits[4]),
              b |-> ParseHexPair(digits[5], digits[6])]
        ELSE NoRgb

\* The gamma expansion of getLuminance for a channel value c of 0..255,
\*   c/255 <= 0.03928 ? c/255/12.92 : Math.pow((c/255 + 0.055)/1.055, 2.4),
\* in ten-thousandths, rounded; entry c + 1 belongs to channel value c.
Linearized ==
    <<
           0,     3,     6,     9,    12,    15,    18,    21,    24,    27,    30,    33,    37,    40,    44,    48,
          52,    56,    60,    65,    70,    75,    80,    86,    91,    97,   103,   110,   116,   123,   130,   137,
         144,   152,   160,   168,   176,   185,   194,   203,   212,   222,   232,   242,   252,   262,   273,   284,
         296,   307,   319,   331,   343,   356,   369,   382,   395,   409,   423,   437,   452,   467,   482,   497,
         513,   529,   545,   561,   578,   595,   612,   630,   648,   666,   685,   704,   723,   742,   762,   782,
         802,   823,   844,   865,   887,   908,   931,   953,   976,   999,  1022,  1046,  1070,  1095,  1119,  1144,
        1170,  1195,  1221,  1248,  1274,  1301,  1329,  1356,  1384,  1413,  1441,  1470,  1500,  1529,  1559,  1590,
        1620,  1651,  1683,  1714,  1746,  1779,  1812,  1845,  1878,  1912,  1946,  1981,  2016,  2051,  2086,  2122,
        2159,  2195,  2232,  2270,  2307,  2346,  2384,  2423,  2462,  2502,  2542,  2582,  2623,  2664,  2705,  2747,
        2789,  2831,  2874,  2918,  2961,  3005,  3050,  3095,  3140,  3185,  3231,  3278,  3325,  3372,  3419,  3467,
        3515,  3564,  3613,  3663,  3712,  3763,  3813,  3864,  3916,  3968,  4020,  4072,  4125,  4179,  4233,  4287,
        4342,  4397,  4452,  4508,  4564,  4621,  4678,  4735,  4793,  4851,  4910,  4969,  5029,  5089,  5149,  5210,
        5271,  5333,  5395,  5457,  5520,  5583,  5647,  5711,  5776,  5841,  5906,  5972,  6038,  6105,  6172,  6240,
        6308,  6376,  6445,  6514,  6584,  6654,  6724,  6795,  6867,  6939,  7011,  7084,  7157,  7231,  7305,  7379,
        7454,  7529,  7605,  7682,  7758,  7835,  7913,  7991,  8070,  8148,  8228,  8308,  8388,  8469,  8550,  8632,
        8714,  8796,  8879,  8963,  9047,  9131,  9216,  9301,  9387,  9473,  9560,  9647,  9734,  9823,  9911, 10000
    >>

\* getLuminance(hex) in units of 10^-8: 0 for a string hexToRgb rejects.
getLuminance(hex) ==
    LET rgb == hexToRgb(hex)
    IN  IF ~rgb.ok THEN 0
        ELSE 2126 * Linearized[rgb.r + 1] + 7152 * Linearized[rgb.g + 1]
                 + 722 * Linearized[rgb.b + 1]

\* A contrast ratio is the fraction n / d, both in units of 10^-8.
Ratio(n, d) == [n |-> n, d |-> d]
AtLeast(ratio, num, den) == ratio.n * den >= num * ratio.d

\* A ratio of the first luminance over the second, in the order given.
getContrastRatio_inOrderGiven(color1, color2) ==
    Ratio(getLuminance(color1) + 5000000, getLuminance(color2) + 5000000)

\* getContrastRatio(color1, color2): (brightest + 0.05) / (darkest + 0.05)
getContrastRatio(color1, color2) ==
    LET lum1 == getLuminance(color1)
        lum2 == getLuminance(color2)
        brightest == IF lum1 >= lum2 THEN lum1 ELSE lum2
        darkest == IF lum1 >= lum2 THEN lum2 ELSE lum1
    IN  Ratio(brightest + 5000000, darkest + 5000000)

\* A passes record with a strict test for AA.
Passes_strictAA(ratio) ==
    [ratio |-> ratio, aa |-> 2 * ratio.n > 9 * ratio.d, aaa |-> AtLeast(ratio, 7, 1)]

\* passes: { aa: ratio >= 4.5, aaa: ratio >= 7.0 } of checkContrast.
Passes(ratio) ==
    [ratio |-> ratio, aa |-> AtLeast(ratio, 9, 2), aaa |-> AtLeast(ratio, 7, 1)]

\* checkContrast(foreground, background)
checkContrast(foreground, background) ==
    Passes(getContrastRatio(foreground, background))

\* ratio.toFixed(2), as a number of hundredths (half rounds up).
ToFixed2(ratio) ==
    LET n == ratio.n \div 100
        d == ratio.d \div 100
    IN  (100 * n + d \div 2) \div d

\* -------------------------------------------- messages of the validator
\* An error or warning string: its fixed text, and for a contrast message
\* the name of the check and the ratio as toFixed(2) prints it.
Message(text) == [text |-> text, name |-> "", ratio |-> 0]
ContrastMessage(text, name, ratio) ==
    [text |-> text, name |-> name, ratio |-> ToFixed2(ratio)]

\* ------------------------------- validateThemeStructure (part_004:78-106)
\* A structural pass that reports the first missing field only.
validateThemeStructure_firstOnly(theme) ==
    IF ~theme.accent.has THEN <<Message("Missing accent color definition")>>
    ELSE IF theme.accent.light = Missing THEN <<Message("Missing accent.light color")>>
    ELSE IF theme.accent.regular = Missing THEN <<Message("Missing accent.regular color")>>
    ELSE IF theme.accent.dark = Missing THEN <<Message("Missing accent.dark color")>>
    ELSE IF ~theme.charts.has THEN <<Message("Missing chart colors definition")>>
    ELSE IF Len(theme.charts.primary) = 0 THEN <<Message("Missing primary chart colors")>>
    ELSE IF Len(theme.charts.categorical) = 0
    THEN <<Message("Missing categorical chart colors")>>
    ELSE IF Len(theme.charts.gradient) = 0 THEN <<Message("Missing gradient chart colors")>>
    ELSE << >>

\* theme.colors of a Theme: accent, the optional gray ramp and charts, each
\* possibly absent (has = FALSE); a theme without colors has none of them.
validateThemeStructure(theme) ==
    LET accent == theme.accent
        charts == theme.charts
        accentErrors ==
            IF ~accent.has THEN <<Message("Missing accent color definition")>>
            ELSE (IF accent.light = Missing
                  THEN <<Message("Missing accent.light color")>> ELSE << >>)
              \o (IF accent.regular = Missing
                  THEN <<Message("Missing accent.regular color")>> ELSE << >>)
              \o (IF accent.dark = Missing
                  THEN <<Message("Missing accent.dark color")>> ELSE << >>)
        chartErrors ==
            IF ~charts.has THEN <<Message("Missing chart colors definition")>>
            ELSE (IF Len(charts.primary) = 0
                  THEN <<Message("Missing primary chart colors")>> ELSE << >>)
              \o (IF Len(charts.categorical) = 0
                  THEN <<Message("Missing categorical chart colors")>> ELSE << >>)
              \o (IF Len(charts.gradient) = 0
                  THEN <<Message("Missing gradient chart colors")>> ELSE << >>)
    IN  accentErrors \o chartErrors

\* ---------------------------- validateColorAccessibility (part_004:111-168)
PRIMARY_LIGHT == "Primary text contrast (light mode)"
SECONDARY_LIGHT == "Secondary text contrast (light mode)"
ACCENT_ON_BACKGROUND == "Accent on background contrast"
PRIMARY_DARK == "Primary text contrast (dark mode)"
SECONDARY_DARK == "Secondary text contrast (dark mode)"
BLACK == <<"#","0","0","0","0","0","0">>
WHITE == <<"#","f","f","f","f","f","f">>
DARK_GRAY == <<"#","3","3","3","3","3","3">>
LIGHT_GRAY == <<"#","c","c","c","c","c","c">>

\* a || b on strings
Or(a, b) == IF a # Missing THEN a ELSE b

Check(name, fg, bg) == [name |-> name, fg |-> fg, bg |-> bg]

\* The body of criticalChecks.forEach (157-165) for one check.
Outcome(name, contrast) ==
    IF ~contrast.aa
    THEN [kind |-> "error",
          msg |-> ContrastMessage("fails WCAG AA", name, contrast.ratio)]
    ELSE IF ~contrast.aaa
    THEN [kind |-> "warning",
          msg |-> ContrastMessage("passes AA but fails AAA", name, contrast.ratio)]
    ELSE [kind |-> "none", msg |-> Message("")]

\* The criticalChecks array as it stands when forEach starts.
criticalChecks(theme) ==
    LET gray == theme.gray.steps
        light == <<Check(PRIMARY_LIGHT, Or(gray["0"], BLACK), Or(gray["999"], WHITE)),
                   Check(SECONDARY_LIGHT, Or(gray["200"], DARK_GRAY), Or(gray["999"], WHITE)),
                   Check(ACCENT_ON_BACKGROUND, theme.accent.regular, Or(gray["999"], WHITE))>>
        dark == <<Check(PRIMARY_DARK, gray["999"], gray["0"]),
                  Check(SECONDARY_DARK, Or(gray["800"], Or(gray["700"], LIGHT_GRAY)),
                        gray["0"])>>
    IN  IF gray["999"] # Missing /\ gray["0"] # Missing THEN light \o dark ELSE light

\* The function from the criticalChecks literal on (119-167).  The literal
\* reads theme.colors.gray['0'] and theme.colors.accent.regular without ?. :
\* a TypeError when gray or accent is undefined.  checked lists the names
\* of the checks that went through checkContrast.
runCriticalChecks(theme) ==
    IF ~theme.accent.has \/ ~theme.gray.has
    THEN [errors |-> << >>, warnings |-> << >>, checked |-> << >>, threw |-> TRUE]
    ELSE LET checks == criticalChecks(theme)
             outcomes == [i \in DOMAIN checks |->
                              Outcome(checks[i].name,
                                      checkContrast(checks[i].fg, checks[i].bg))]
             failed == SelectSeq(outcomes, LAMBDA o : o.kind = "error")
             warned == SelectSeq(outcomes, LAMBDA o : o.kind = "warning")
         IN  [errors |-> [i \in DOMAIN failed |-> failed[i].msg],
              warnings |-> [i \in DOMAIN warned |-> warned[i].msg],
              checked |-> [i \in DOMAIN checks |-> checks[i].name],
              threw |-> FALSE]

\* A validateColorAccessibility without the early return of 115-117.
validateColorAccessibility_unguarded(theme) == runCriticalChecks(theme)

\* validateColorAccessibility(theme): returns errors and warnings.
validateColorAccessibility(theme) ==
    IF ~theme.accent.has \/ ~theme.gray.has
    THEN [errors |-> <<Message("Cannot validate accessibility without complete color definitions")>>,
          warnings |-> << >>, checked |-> << >>, threw |-> FALSE]
    ELSE runCriticalChecks(theme)

\* ------------------------------- validateColorHarmony (part_004:173-202)
\* An absent primary list is kept as the empty list; validateTheme runs
\* this pass only on themes whose primary list has an entry.
validateColorHarmony(theme) ==
    IF ~theme.accent.has THEN << >>
    ELSE LET lightLum == getLuminance(theme.accent.light)
             regularLum == getLuminance(theme.accent.regular)
             darkLum == getLuminance(theme.accent.dark)
         IN  (IF lightLum <= regularLum
              THEN <<Message("Accent light should be lighter than regular")>> ELSE << >>)
          \o (IF regularLum <= darkLum
              THEN <<Message("Accent regular should be lighter than dark")>> ELSE << >>)
          \o (IF theme.charts.has /\ Len(theme.charts.primary) < 3
              THEN <<Message("Consider adding more primary chart colors for better variety")>>
              ELSE << >>)

\* -------------------------------------- validateTheme (part_004:207-229)
\* The call ended in an exception: nothing is returned.
Thrown ==
    [isValid |-> FALSE, errors |-> << >>, warnings |-> << >>, checked |-> << >>,
     done |-> TRUE, threw |-> TRUE]

\* An isValid that also wants the warnings list empty.
isValid_countsWarnings(errors, warnings) == Len(errors) = 0 /\ Len(warnings) = 0

\* isValid: errors.length === 0 of the returned object (225).
isValid(errors, warnings) == Len(errors) = 0

\* A validateTheme that runs the later passes whatever the structure.
validateTheme_alwaysRunsPasses(theme) ==
    LET structure == validateThemeStructure(theme)
        accessibilityResult == validateColorAccessibility(theme)
        errors == structure \o accessibilityResult.errors
    IN  IF accessibilityResult.threw THEN Thrown
        ELSE LET warnings == accessibilityResult.warnings \o validateColorHarmony(theme)
             IN  [isValid |-> isValid(errors, warnings), errors |-> errors,
                  warnings |-> warnings,
                  checked |-> accessibilityResult.checked,
                  done |-> TRUE, threw |-> FALSE]

\* validateTheme(theme): the ValidationResult, with the checks that ran.
validateTheme(theme) ==
    LET structure == validateThemeStructure(theme)
        ran == Len(structure) = 0
        accessibilityResult == validateColorAccessibility(theme)
        errors == IF ran THEN structure \o accessibilityResult.errors ELSE structure
        warnings == IF ran
                    THEN accessibilityResult.warnings \o validateColorHarmony(theme)
                    ELSE << >>
    IN  IF ran /\ accessibilityResult.threw THEN Thrown
        ELSE [isValid |-> isValid(errors, warnings), errors |-> errors,
              warnings |-> warnings,
              checked |-> IF ran THEN accessibilityResult.checked ELSE << >>,
              done |-> TRUE, threw |-> FALSE]

\* ------------------------------------------------- themes to be validated
ACCENT_LIGHT == <<"#","c","5","6","1","f","6">>
ACCENT_REGULAR == <<"#","7","6","1","1","a","6">>
ACCENT_DARK == <<"#","1","c","0","0","5","6">>
MID_GRAY == <<"#","7","6","7","6","7","6">>
PALE_GRAY == <<"#","9","9","9","9","9","9">>
SHORT_HEX == <<"#","f","f","f">>

Accents ==
    {NoTheme.accent}
    \cup [has : {TRUE},
          light : {Missing, ACCENT_LIGHT},
          regular : {Missing, ACCENT_REGULAR, PALE_GRAY, SHORT_HEX},
          dark : {Missing, ACCENT_DARK}]

GraySteps ==
    {steps \in [GrayKeys -> {Missing, BLACK, WHITE, MID_GRAY, LIGHT_GRAY}] :
        /\ steps["0"] \in {Missing, BLACK, MID_GRAY}
        /\ steps["200"] \in {Missing, MID_GRAY}
        /\ steps["700"] \in {Missing, MID_GRAY}
        /\ steps["800"] \in {Missing, LIGHT_GRAY}
        /\ steps["999"] \in {Missing, WHITE}}

Grays == {NoTheme.gray} \cup [has : {TRUE}, steps : GraySteps]

Charts ==
    {NoTheme.charts}
    \cup [has : {TRUE},
          primary : {<< >>, <<ACCENT_REGULAR>>,
                     <<ACCENT_REGULAR, ACCENT_LIGHT, ACCENT_DARK>>},
          categorical : {<< >>, <<ACCENT_REGULAR>>},
          gradient : {<< >>, <<ACCENT_DARK, ACCENT_REGULAR>>, <<SHORT_HEX, ACCENT_DARK>>}]

Themes == [accent : Accents, gray : Grays, charts : Charts]

\* The pairs and the ratios the contrast check is tried on.
Colors == {Missing, BLACK, WHITE, DARK_GRAY, MID_GRAY, PALE_GRAY, LIGHT_GRAY,
           ACCENT_LIGHT, ACCENT_REGULAR, ACCENT_DARK, SHORT_HEX}
Pairs == [fg : Colors, bg : Colors]
Ratios == {Ratio(10000000, 10000000), Ratio(44999900, 10000000),
           Ratio(45000000, 10000000), Ratio(45000100, 10000000),
           Ratio(69999000, 10000000), Ratio(70000000, 10000000),
           Ratio(70000100, 10000000), Ratio(105000000, 5000000)}

\* ---------------------------------------------------- validator, actions
\* validateTheme(theme) on the loaded theme.
ValidateTheme ==
    /\ result' = validateTheme(loadedTheme)
    /\ UNCHANGED <<holderVars, loadedTheme, pair, probe, generatorVars, plotlyVars>>

\* What forEach collects for one check, given its ContrastCheck.
Collected(contrast) ==
    LET outcome == Outcome(PRIMARY_LIGHT, contrast)
    IN  [done |-> TRUE, ratio |-> contrast.ratio,
         errors |-> IF outcome.kind = "error" THEN <<outcome.msg>> ELSE << >>,
         warnings |-> IF outcome.kind = "warning" THEN <<outcome.msg>> ELSE << >>]

\* checkContrast(pair.fg, pair.bg) and the forEach body on its result.
CheckContrast ==
    /\ LET collected == Collected(checkContrast(pair.fg, pair.bg))
       IN  probe' = [probe EXCEPT !.done = collected.done, !.ratio = collected.ratio,
                                  !.errors = collected.errors,
                                  !.warnings = collected.warnings]
    /\ UNCHANGED <<holderVars, loadedTheme, result, pair, generatorVars, plotlyVars>>

\* The same from the point where getContrastRatio has returned ratio.
CheckRatio(ratio) ==
    /\ LET collected == Collected(Passes(ratio))
       IN  probe' = [probe EXCEPT !.done = collected.done, !.ratio = collected.ratio,
                                  !.errors = collected.errors,
                                  !.warnings = collected.warnings]
    /\ UNCHANGED <<holderVars, loadedTheme, result, pair, generatorVars, plotlyVars>>

\* getContrastRatio on the pair, on the pair reversed, and on its
\* foreground against itself.
GetContrastRatio ==
    /\ probe' = [probe EXCEPT !.measured = TRUE,
                              !.forward = getContrastRatio(pair.fg, pair.bg),
                              !.reverse = getContrastRatio(pair.bg, pair.fg),
                              !.same = getContrastRatio(pair.fg, pair.fg)]
    /\ UNCHANGED <<holderVars, loadedTheme, result, pair, generatorVars, plotlyVars>>

\* The page plays no part while the build validates themes.
HolderIdle ==
    /\ revision = "markup" /\ storageMode = "ok" /\ instance = FALSE
    /\ state = InitialState /\ classList = << >>
    /\ storage = [theme |-> NoItem, selected |-> NoItem]
    /\ observing = FALSE /\ pending = FALSE
    /\ lastCall = [op |-> "none", events |-> 0, threw |-> FALSE, ret |-> FALSE,
                   theme |-> << >>, heard |-> NoHeard]
    /\ refs = [got |-> NoRef, detail |-> NoRef]

InitValidate ==
    /\ HolderIdle /\ GeneratorIdle /\ PlotlyIdle
    /\ loadedTheme \in Themes /\ result = NoResult /\ pair = NoPair /\ probe = NoProbe

NextValidate == ValidateTheme

SpecValidate == InitValidate /\ [][NextValidate]_vars

InitContrast ==
    /\ HolderIdle /\ GeneratorIdle /\ PlotlyIdle
    /\ loadedTheme = NoTheme /\ result = NoResult /\ pair \in Pairs /\ probe = NoProbe

NextContrast ==
    \/ CheckContrast
    \/ GetContrastRatio
    \/ \E ratio \in Ratios : CheckRatio(ratio)

SpecContrast == InitContrast /\ [][NextContrast]_vars

\* ========================================================= CSS generation
\* --------------- generateThemeCSS (part_005:14-64, buildThemes.js:13-121)
\* The generated text is kept as its selector and its declarations in
\* order; a name or a value is the sequence of the pieces the template
\* literal joins.
Decl(name, value) == [name |-> name, value |-> value]

\* ${v} in a template literal; Missing stands for a key that is not there.
Interp(v) == IF v = Missing THEN <<"undefined">> ELSE v

DecimalDigits == <<"0","1","2","3","4","5","6","7","8","9">>
\* String(n) for the numbers 0..999
Decimal(n) ==
    IF n < 10 THEN <<DecimalDigits[n + 1]>>
    ELSE IF n < 100 THEN <<DecimalDigits[(n \div 10) + 1], DecimalDigits[(n % 10) + 1]>>
    ELSE <<DecimalDigits[(n \div 100) + 1], DecimalDigits[((n \div 10) % 10) + 1],
           DecimalDigits[(n % 10) + 1]>>

FALLBACK == <<"#","7","6","1","1","a","6">>

\* A getChartColor that stops at the last entry instead of wrapping.
getChartColor_clamps(colors, index) ==
    IF Len(colors) = 0 THEN FALLBACK
    ELSE LET color == colors[(IF index < Len(colors) THEN index ELSE Len(colors) - 1) + 1]
         IN  IF color = Missing THEN FALLBACK ELSE color

\* getChartColor(colors, index): colors[index % colors.length] || fallback,
\* the fallback also for no list and for the empty list.
getChartColor(colors, index) ==
    IF Len(colors) = 0 THEN FALLBACK
    ELSE LET color == colors[(index % Len(colors)) + 1]
         IN  IF color = Missing THEN FALLBACK ELSE color

\* The steps the grayVars template names, in its order.
GrayStepKeys == <<"0", "50", "100", "200", "300", "400", "500", "600", "700",
                  "800", "900", "999">>

\* A grayVars that writes only the steps the theme has.
grayVars_skipsAbsent(theme) ==
    IF theme.gray.has
    THEN LET present == SelectSeq(GrayStepKeys, LAMBDA k : theme.gray.steps[k] # Missing)
         IN  [i \in DOMAIN present |->
                 Decl(<<"--gray-", present[i]>>, theme.gray.steps[present[i]])]
    ELSE << >>

\* const grayVars = theme.colors.gray ? `...` : ''
grayVars(theme) ==
    IF theme.gray.has
    THEN [i \in DOMAIN GrayStepKeys |->
             Decl(<<"--gray-", GrayStepKeys[i]>>, Interp(theme.gray.steps[GrayStepKeys[i]]))]
    ELSE << >>

\* The sixteen chart declarations both files end with.
chartVars(theme) ==
    [i \in 1..5 |-> Decl(<<"--chart-color-">> \o Decimal(i),
                         getChartColor(theme.charts.primary, i - 1))]
    \o [i \in 1..8 |-> Decl(<<"--chart-categorical-">> \o Decimal(i),
                            getChartColor(theme.charts.categorical, i - 1))]
    \o [i \in 1..3 |-> Decl(<<"--gradient-stop-">> \o Decimal(i),
                            getChartColor(theme.charts.gradient, i - 1))]

accentVars(theme) ==
    <<Decl(<<"--accent-light">>, Interp(theme.accent.light)),
      Decl(<<"--accent-regular">>, Interp(theme.accent.regular)),
      Decl(<<"--accent-dark">>, Interp(theme.accent.dark))>>

\* theme.colors.charts is destructured and theme.colors.accent.light read
\* without ?. : a TypeError when charts or accent is undefined.
ReadsUndefined(theme) == ~theme.charts.has \/ ~theme.accent.has

Selector(theme) == <<":root.theme-">> \o Interp(theme.id)
ThrownOutput == [threw |-> TRUE, selector |-> << >>, decls |-> << >>]

\* generateThemeCSS(theme) of the theme loader (part_005:14-64).
generateThemeCSS_loader(theme) ==
    IF ReadsUndefined(theme) THEN ThrownOutput
    ELSE [threw |-> FALSE, selector |-> Selector(theme),
          decls |-> accentVars(theme) \o grayVars(theme) \o chartVars(theme)]

\* getThemeHueRotate(theme): themeHues[theme.id] || '0deg'
getThemeHueRotate(theme) ==
    CASE theme.id = DEFAULT -> "280deg"
      [] theme.id = OCEAN_BLUE -> "200deg"
      [] theme.id = FOREST_GREEN -> "120deg"
      [] theme.id = CATPPUCCIN_LATTE -> "350deg"
      [] theme.id = CATPPUCCIN_MOCHA -> "260deg"
      [] OTHER -> "0deg"

\* accentOverlay (buildThemes.js:59-62)
accentOverlay(theme) ==
    LET accentRgb == hexToRgb(theme.accent.regular)
    IN  IF accentRgb.ok
        THEN <<"rgba(">> \o Decimal(accentRgb.r) \o <<", ">> \o Decimal(accentRgb.g)
                \o <<", ">> \o Decimal(accentRgb.b) \o <<", 0.33)">>
        ELSE Interp(theme.accent.regular) \o <<"55">>

\* accentTextOver (buildThemes.js:77-80): luminance above 0.5
accentTextOver(theme) ==
    IF getLuminance(theme.accent.regular) > 50000000
    THEN (IF theme.gray.has THEN Or(theme.gray.steps["0"], BLACK) ELSE BLACK)
    ELSE (IF theme.gray.has THEN Or(theme.gray.steps["999"], WHITE) ELSE WHITE)

\* The declarations buildThemes.js writes between the accent colors and
\* the gray ramp (87-99).
derivedVars(theme) ==
    LET light == Interp(theme.accent.light)
        regular == Interp(theme.accent.regular)
        dark == Interp(theme.accent.dark)
        hue == getThemeHueRotate(theme)
    IN  <<Decl(<<"--accent-overlay">>, accentOverlay(theme)),
          Decl(<<"--accent-subtle-overlay">>, accentOverlay(theme)),
          Decl(<<"--accent-text-over">>, accentTextOver(theme)),
          Decl(<<"--bg-gradient-subtle">>,
               <<"linear-gradient(135deg, ">> \o dark \o <<"30, transparent 50%, ">>
                  \o light \o <<"20)">>),
          Decl(<<"--bg-gradient-hero">>,
               <<"radial-gradient(ellipse 60% 50% at 50% 0%, ">> \o light
                  \o <<"25, transparent 60%)">>),
          Decl(<<"--bg-gradient-footer">>,
               <<"linear-gradient(180deg, ">> \o dark \o <<"20, ">> \o regular
                  \o <<"30)">>),
          Decl(<<"--img-theme-filter">>,
               <<"sepia(0.4) hue-rotate(", hue,
                 ") saturate(1.2) brightness(1.05) contrast(1.1)">>),
          Decl(<<"--img-theme-filter-subtle">>,
               <<"sepia(0.2) hue-rotate(", hue, ") saturate(1.0) brightness(1.02)">>),
          Decl(<<"--img-theme-filter-none">>, <<"none">>)>>

\* A generator that numbers its outputs.
generateThemeCSS_numbersCalls(theme) ==
    IF ReadsUndefined(theme) THEN ThrownOutput
    ELSE [threw |-> FALSE, selector |-> Selector(theme) \o Decimal(gen.calls),
          decls |-> accentVars(theme) \o derivedVars(theme) \o grayVars(theme)
                       \o chartVars(theme)]

\* generateThemeCSS(theme) of the build script (buildThemes.js:13-121).
generateThemeCSS(theme) ==
    IF ReadsUndefined(theme) THEN ThrownOutput
    ELSE [threw |-> FALSE, selector |-> Selector(theme),
          decls |-> accentVars(theme) \o derivedVars(theme) \o grayVars(theme)
                       \o chartVars(theme)]

\* ------------------------------------------- theme records to generate from
MaxCalls == 3

FullRamp ==
    ("0" :> <<"#","f","f","f","f","f","f">> @@
     "50" :> <<"#","f","6","f","8","f","a">> @@
     "100" :> <<"#","e","a","e","e","f","2">> @@
     "200" :> <<"#","d","0","d","7","d","e">> @@
     "300" :> <<"#","a","f","b","8","c","1">> @@
     "400" :> <<"#","8","c","9","5","9","f">> @@
     "500" :> <<"#","6","e","7","7","8","1">> @@
     "600" :> <<"#","5","7","6","0","6","a">> @@
     "700" :> <<"#","4","2","4","a","5","3">> @@
     "800" :> <<"#","3","2","3","8","3","f">> @@
     "900" :> <<"#","2","4","2","9","2","f">> @@
     "999" :> <<"#","1","b","1","f","2","4">>)
\* A ramp with its two ends only.
EndsOnly == [k \in DOMAIN FullRamp |->
                IF k \in {"0", "999"} THEN FullRamp[k] ELSE Missing]

GeneratorAccents ==
    {NoTheme.accent,
     [has |-> TRUE, light |-> ACCENT_LIGHT, regular |-> ACCENT_REGULAR, dark |-> ACCENT_DARK],
     [has |-> TRUE, light |-> WHITE, regular |-> WHITE, dark |-> ACCENT_DARK],
     [has |-> TRUE, light |-> ACCENT_LIGHT, regular |-> SHORT_HEX, dark |-> Missing]}

GeneratorGrays ==
    {[has |-> FALSE, steps |-> [k \in DOMAIN FullRamp |-> Missing]],
     [has |-> TRUE, steps |-> FullRamp],
     [has |-> TRUE, steps |-> EndsOnly]}

GeneratorCharts ==
    {NoTheme.charts,
     [has |-> TRUE, primary |-> << >>, categorical |-> << >>, gradient |-> << >>],
     [has |-> TRUE, primary |-> <<ACCENT_REGULAR>>,
      categorical |-> <<ACCENT_REGULAR, ACCENT_LIGHT, ACCENT_DARK>>,
      gradient |-> <<ACCENT_DARK, ACCENT_REGULAR>>],
     [has |-> TRUE, primary |-> <<ACCENT_REGULAR, Missing, ACCENT_DARK>>,
      categorical |-> <<ACCENT_REGULAR, ACCENT_LIGHT, ACCENT_DARK>>,
      gradient |-> <<ACCENT_DARK, ACCENT_REGULAR, ACCENT_LIGHT>>]}

GeneratorThemes ==
    [id : {DEFAULT, <<"x">>}, name : {"Default"}, accent : GeneratorAccents,
     gray : GeneratorGrays, charts : GeneratorCharts]

\* A call target: which of the two functions, on which record.
Subjects == [fn : {"themeLoader", "buildThemes"}, theme : GeneratorThemes]
OtherSubjects ==
    {sub \in Subjects :
        /\ sub.theme.id = DEFAULT /\ sub.theme.accent.regular = ACCENT_REGULAR
        /\ sub.theme.gray.has /\ sub.theme.gray.steps = FullRamp
        /\ sub.theme.charts.has /\ Len(sub.theme.charts.primary) = 1}

\* ---------------------------------------------------- generator, actions
\* One more call of generateThemeCSS, on the first or the second record.
Generate(who) ==
    /\ gen.calls < MaxCalls
    /\ LET out == IF subjects[who].fn = "buildThemes"
                  THEN generateThemeCSS(subjects[who].theme)
                  ELSE generateThemeCSS_loader(subjects[who].theme)
       IN  gen' = [calls |-> gen.calls + 1, who |-> who, again |-> gen.seen[who],
                   last |-> out,
                   seen |-> [gen.seen EXCEPT ![who] = TRUE],
                   first |-> IF gen.seen[who] THEN gen.first
                             ELSE [gen.first EXCEPT ![who] = out]]
    /\ UNCHANGED <<holderVars, validatorVars, subjects, themeFiles, build, plotlyVars>>

InitGenerate ==
    /\ HolderIdle /\ ValidatorIdle /\ PlotlyIdle
    /\ subjects \in {<<a, b>> : a \in Subjects, b \in OtherSubjects}
    /\ gen = NoGen /\ themeFiles = << >> /\ build = NoBuild

NextGenerate == \E who \in {1, 2} : Generate(who)

SpecGenerate == InitGenerate /\ [][NextGenerate]_vars

\* ------------------------------ the build script (buildThemes.js:124-157)
\* A directory entry: its name without the extension, its extension, what
\* reading and parsing it gives, and the parsed theme when it is an object.
Entry(stem, ext, content, theme) ==
    [stem |-> stem, ext |-> ext, content |-> content, theme |-> theme]

\* readdirSync(themesDir).filter(file => file.endsWith('.json'))
JsonFiles(dir) == SelectSeq(dir, LAMBDA file : file.ext = "json")

\* readFileSync or JSON.parse throws, or JSON.parse gives null and reading
\* theme.id throws.
Unusable(file) == file.content \in {"unreadable", "invalid", "null"}

\* if (!theme.id) theme.id = file.replace('.json', '')
WithId(file) ==
    IF file.theme.id = Missing THEN [file.theme EXCEPT !.id = file.stem] ELSE file.theme

\* What one theme file adds to consolidatedCSS (142-144).
Block(file) == [comment |-> file.theme.name, css |-> generateThemeCSS(WithId(file))]

\* The exception of the forEach body reaches the catch: process.exit(1).
Failed(b) == [b EXCEPT !.pc = "failed", !.exitCode = 1]

\* A forEach body that leaves out a theme file it cannot use.
processFile_skipsUnusable(b, file) ==
    IF Unusable(file) \/ Block(file).css.threw THEN [b EXCEPT !.next = @ + 1]
    ELSE [b EXCEPT !.next = @ + 1, !.blocks = Append(@, Block(file))]

\* The forEach body on one theme file (133-145).
processFile(b, file) ==
    IF Unusable(file) \/ Block(file).css.threw THEN Failed(b)
    ELSE [b EXCEPT !.next = @ + 1, !.blocks = Append(@, Block(file))]

\* ------------------------------------------------------- build, inputs
MaxFiles == 3

GoodTheme ==
    [id |-> DEFAULT, name |-> "Default",
     accent |-> [has |-> TRUE, light |-> ACCENT_LIGHT, regular |-> ACCENT_REGULAR,
                 dark |-> ACCENT_DARK],
     gray |-> [has |-> TRUE, steps |-> FullRamp],
     charts |-> [has |-> TRUE, primary |-> <<ACCENT_REGULAR>>,
                 categorical |-> <<ACCENT_REGULAR, ACCENT_LIGHT, ACCENT_DARK>>,
                 gradient |-> << >>]]
Entries ==
    {Entry(DEFAULT, "json", "object", GoodTheme),
     Entry(OCEAN_BLUE, "json", "object", [GoodTheme EXCEPT !.id = Missing, !.gray.has = FALSE]),
     Entry(FOREST_GREEN, "json", "object", [GoodTheme EXCEPT !.charts.has = FALSE]),
     Entry(DARK, "json", "invalid", GoodTheme),
     Entry(LIGHT, "json", "unreadable", GoodTheme),
     Entry(CATPPUCCIN_LATTE, "json", "null", GoodTheme),
     Entry(<<"R","E","A","D","M","E">>, "md", "object", GoodTheme)}
Directories == UNION {[1..n -> Entries] : n \in 0..MaxFiles}

\* ------------------------------------------------------ build, actions
\* The script starts: the directory is listed and filtered (127).
BuildStart ==
    /\ build.pc = "idle"
    /\ build' = [build EXCEPT !.pc = "files", !.files = JsonFiles(themeFiles)]
    /\ UNCHANGED <<holderVars, validatorVars, subjects, gen, themeFiles, plotlyVars>>

\* The next theme file is read, parsed and turned into CSS.
BuildFile ==
    /\ build.pc = "files" /\ build.next <= Len(build.files)
    /\ build' = processFile(build, build.files[build.next])
    /\ UNCHANGED <<holderVars, validatorVars, subjects, gen, themeFiles, plotlyVars>>

\* After the last theme file: writeFileSync(outputPath, consolidatedCSS).
BuildWrite ==
    /\ build.pc = "files" /\ build.next > Len(build.files)
    /\ build' = [build EXCEPT !.pc = "done", !.written = TRUE, !.file = build.blocks]
    /\ UNCHANGED <<holderVars, validatorVars, subjects, gen, themeFiles, plotlyVars>>

InitBuild ==
    /\ HolderIdle /\ ValidatorIdle /\ PlotlyIdle
    /\ subjects = << >> /\ gen = NoGen
    /\ themeFiles \in Directories /\ build = NoBuild

NextBuild == BuildStart \/ BuildFile \/ BuildWrite

SpecBuild == InitBuild /\ [][NextBuild]_vars

\* ========================================================= chart theming
\* ------------------------------- Plotly theme utilities (part_011:109-399)
\* String.prototype.trim() on the blanks a custom property value carries.
Trim(v) ==
    LET inner == {i \in DOMAIN v : v[i] # " "}
    IN  IF inner = {} THEN << >>
        ELSE SubSeq(v, CHOOSE i \in inner : \A j \in inner : i <= j,
                       CHOOSE i \in inner : \A j \in inner : i >= j)

\* The computed style of the root element: the value of each custom
\* property the utilities read, the empty string for one that is not set.
Style(accents, chartColors, categorical, gradient, grays) ==
    [accents |-> accents, chartColors |-> chartColors, categorical |-> categorical,
     gradient |-> gradient, grays |-> grays]

\* [ ... ].filter(color => color && color !== '') on trimmed values
TrimmedNonEmpty(values) ==
    SelectSeq([i \in DOMAIN values |-> Trim(values[i])], LAMBDA color : color # Missing)

\* getCurrentThemeColors() in the browser (part_011:148-179)
getCurrentThemeColors(style) ==
    [accent |-> Trim(style.accents[2]), accentLight |-> Trim(style.accents[1]),
     accentDark |-> Trim(style.accents[3]),
     primary |-> TrimmedNonEmpty(style.chartColors),
     categorical |-> TrimmedNonEmpty(style.categorical),
     gradient |-> TrimmedNonEmpty(style.gradient),
     textColor |-> Trim(style.grays[1]), backgroundColor |-> Trim(style.grays[2]),
     gridColor |-> Trim(style.grays[3])]

CHART_PURPLE == <<"#","9","d","4","e","d","d">>
CHART_INDIGO == <<"#","5","a","1","8","9","a">>
CHART_BLUE == <<"#","2","E","8","6","A","B">>
CHART_ORANGE == <<"#","F","7","7","F","0","0">>
CHART_GREEN == <<"#","0","6","D","6","A","0">>
CHART_RED == <<"#","E","6","3","9","4","6">>
TEXT_COLOR == <<"#","3","d","4","6","6","3">>
GRID_COLOR == <<"#","e","3","e","6","e","e">>

\* getDefaultThemeColors() (part_011:184-197)
getDefaultThemeColors ==
    [accent |-> ACCENT_REGULAR, accentLight |-> ACCENT_LIGHT, accentDark |-> ACCENT_DARK,
     primary |-> <<ACCENT_REGULAR, ACCENT_LIGHT, ACCENT_DARK, CHART_PURPLE, CHART_INDIGO>>,
     categorical |-> <<ACCENT_REGULAR, CHART_BLUE, CHART_ORANGE, CHART_GREEN, CHART_RED>>,
     gradient |-> <<ACCENT_DARK, ACCENT_REGULAR, ACCENT_LIGHT>>,
     textColor |-> TEXT_COLOR, backgroundColor |-> WHITE, gridColor |-> GRID_COLOR]

\* parseInt(text, 16) of at most two characters: the hexadecimal digits it
\* starts with, NaN when it starts with none.
NaN == 0 - 1
ParseInt16(text) ==
    IF Len(text) = 0 \/ ~IsHexChar(text[1]) THEN NaN
    ELSE IF Len(text) = 1 \/ ~IsHexChar(text[2]) THEN HexValue(text[1])
    ELSE ParseHexPair(text[1], text[2])

\* ${n} for the result of parseInt
ShowInt(n) == IF n = NaN THEN <<"NaN">> ELSE Decimal(n)

\* hex.substr(start, 2), start counted from 0
Substr2(hex, start) ==
    SubSeq(hex, start + 1, IF start + 2 <= Len(hex) THEN start + 2 ELSE Len(hex))

\* adjustColorOpacity(hexColor, 0.7) (part_011:330-337)
adjustColorOpacity(hexColor) ==
    LET hex == Replace(hexColor, <<"#">>, << >>)
    IN  <<"rgba(">> \o ShowInt(ParseInt16(Substr2(hex, 0))) \o <<", ">>
            \o ShowInt(ParseInt16(Substr2(hex, 2))) \o <<", ">>
            \o ShowInt(ParseInt16(Substr2(hex, 4))) \o <<", 0.7)">>

\* adjustColorSaturation(hexColor, 1.2): a placeholder, returns its argument
adjustColorSaturation(hexColor) == hexColor

\* baseColors of generateIntelligentColorPalette (304-306)
baseColors(colors, strategy) ==
    IF strategy.priority = "accent"
    THEN <<colors.accent, colors.accentLight, colors.accentDark>> \o colors.primary
    ELSE colors.categorical

\* adjustedColors = baseColors.map(...) (309-316)
adjustColors(base, strategy) ==
    [i \in DOMAIN base |->
        IF strategy.colorIntensity = "subtle" THEN adjustColorOpacity(base[i])
        ELSE IF strategy.colorIntensity = "vibrant" THEN adjustColorSaturation(base[i])
        ELSE base[i]]

\* Math.max(traceCount, 5)
neededColors(traceCount) == IF traceCount > 5 THEN traceCount ELSE 5

\* array.slice(0, end) for end >= 0
SliceTo(array, end) == SubSeq(array, 1, IF end < Len(array) THEN end ELSE Len(array))

\* ----------------------------------------------------- palette, inputs
MaxTraces == 7

\* A page without theme styles, the page of the default theme, a page
\* whose style sheet sets only three categorical colors, with blanks.
UnstyledPage ==
    Style(<<Missing, Missing, Missing>>, [i \in 1..5 |-> Missing], [i \in 1..8 |-> Missing],
          [i \in 1..3 |-> Missing], <<Missing, Missing, Missing>>)
DefaultPage ==
    Style(<<ACCENT_LIGHT, ACCENT_REGULAR, ACCENT_DARK>>,
          <<ACCENT_REGULAR, ACCENT_LIGHT, ACCENT_DARK, ACCENT_REGULAR, ACCENT_LIGHT>>,
          <<ACCENT_REGULAR, CHART_BLUE, CHART_ORANGE, CHART_GREEN, CHART_RED,
            ACCENT_REGULAR, CHART_BLUE, CHART_ORANGE>>,
          <<ACCENT_DARK, ACCENT_REGULAR, ACCENT_LIGHT>>,
          <<TEXT_COLOR, WHITE, GRID_COLOR>>)
SparsePage ==
    Style(<<<<" ">> \o ACCENT_LIGHT, <<" ">> \o ACCENT_REGULAR, <<" ">> \o ACCENT_DARK>>,
          <<<<" ">> \o ACCENT_REGULAR, Missing, Missing, Missing, Missing>>,
          <<<<" ">> \o CHART_BLUE, <<" ">>, <<" ">> \o CHART_ORANGE, Missing,
            <<" ">> \o CHART_GREEN \o <<" ">>, Missing, Missing, Missing>>,
          <<Missing, Missing, Missing>>,
          <<<<" ">> \o TEXT_COLOR, <<" ">> \o WHITE, <<" ">> \o GRID_COLOR>>)
Pages == {UnstyledPage, DefaultPage, SparsePage}

\* The color sets a caller has: read from the page, or the server-side
\* defaults, or the defaults with a single categorical color.
ColorSets ==
    {getCurrentThemeColors(page) : page \in Pages}
        \cup {getDefaultThemeColors,
              [getDefaultThemeColors EXCEPT !.categorical = <<CHART_BLUE>>]}
Strategies ==
    [priority : {"primary", "secondary", "accent"},
     colorIntensity : {"subtle", "normal", "vibrant"}]

\* ----------------------------------------------------- palette, actions
\* generateIntelligentColorPalette up to its while loop (304-319).
PaletteBegin ==
    /\ palette.pc = "called"
    /\ palette' = [palette EXCEPT
            !.pc = "loop",
            !.adjustedColors = adjustColors(baseColors(palette.colors, palette.strategy),
                                            palette.strategy),
            !.neededColors = neededColors(palette.traceCount)]
    /\ UNCHANGED <<holderVars, validatorVars, generatorVars, layout>>

\* One pass of the loop body (320-322): push the first colors again, as
\* many as are still needed and no more than there are.  With no colors
\* the pass pushes nothing and the loop condition is as it was.
PalettePush ==
    /\ palette.pc = "loop"
    /\ Len(palette.adjustedColors) < palette.neededColors
    /\ palette' = [palette EXCEPT !.adjustedColors =
            @ \o SliceTo(@, palette.neededColors - Len(@))]
    /\ UNCHANGED <<holderVars, validatorVars, generatorVars, layout>>

\* The loop is left and the first neededColors colors are returned (324).
PaletteReturn ==
    /\ palette.pc = "loop"
    /\ ~(Len(palette.adjustedColors) < palette.neededColors)
    /\ palette' = [palette EXCEPT !.pc = "returned",
                                  !.out = SliceTo(palette.adjustedColors,
                                                  palette.neededColors)]
    /\ UNCHANGED <<holderVars, validatorVars, generatorVars, layout>>

InitPalette ==
    /\ HolderIdle /\ ValidatorIdle /\ GeneratorIdle /\ layout = NoLayout
    /\ \E colors \in ColorSets, strategy \in Strategies, traceCount \in 0..MaxTraces :
          palette = [NoPalette EXCEPT !.pc = "called", !.colors = colors,
                                      !.strategy = strategy, !.traceCount = traceCount]

NextPalette == PaletteBegin \/ PalettePush \/ PaletteReturn

\* A call that has started runs on: the script engine does nothing else
\* until the function returns.
SpecPalette == InitPalette /\ [][NextPalette]_vars /\ WF_vars(NextPalette)

\* --------------------------------- createThemedLayout (part_011:351-399)
\* A property value of a layout: a color, a font, a text, a number or a
\* list of colors.
Color(c) == [kind |-> "color", color |-> c, size |-> 0, text |-> "", list |-> << >>]
Font(c, size) == [kind |-> "font", color |-> c, size |-> size, text |-> "", list |-> << >>]
Text(t) == [kind |-> "text", color |-> Missing, size |-> 0, text |-> t, list |-> << >>]
Number(n) == [kind |-> "number", color |-> Missing, size |-> n, text |-> "", list |-> << >>]
List(l) == [kind |-> "list", color |-> Missing, size |-> 0, text |-> "", list |-> l]

\* An object is a function from its property names; {} has none.  A layout
\* is an object of objects: a property that is not itself an object is
\* held as the one property "value".
EmptyObject == [name \in {} |-> Text("")]
Scalar(v) == "value" :> v

\* { ...a, ...b }: the properties of b, and those of a that b has not.
Spread(a, b) ==
    [name \in DOMAIN a \cup DOMAIN b |-> IF name \in DOMAIN b THEN b[name] ELSE a[name]]

\* customLayout.key, and what spreading it adds: nothing when it is undefined.
PropertyOf(object, key) == IF key \in DOMAIN object THEN object[key] ELSE EmptyObject

\* The keys whose object createThemedLayout spreads the caller's object into.
MergedKeys == {"xaxis", "yaxis", "legend", "title"}

\* The theme-derived properties of the layout (355-391, without the spreads).
axis(colors) ==
    ("gridcolor" :> Color(colors.gridColor)) @@ ("linecolor" :> Color(colors.gridColor))
        @@ ("tickcolor" :> Color(colors.gridColor))
        @@ ("tickfont" :> Font(colors.textColor, 11))
        @@ ("titlefont" :> Font(colors.textColor, 13))
themed(colors) ==
    ("paper_bgcolor" :> Scalar(Text("transparent")))
        @@ ("plot_bgcolor" :> Scalar(Text("transparent")))
        @@ ("font" :> (("family" :> Text("Public Sans, system-ui, sans-serif"))
                          @@ ("color" :> Color(colors.textColor))
                          @@ ("size" :> Number(12))))
        @@ ("colorway" :> Scalar(List(colors.categorical)))
        @@ ("margin" :> (("l" :> Number(60)) @@ ("r" :> Number(40))
                            @@ ("t" :> Number(60)) @@ ("b" :> Number(60))))
        @@ ("xaxis" :> axis(colors))
        @@ ("yaxis" :> axis(colors))
        @@ ("legend" :> (("font" :> Font(colors.textColor, 11))
                            @@ ("bgcolor" :> Text("transparent"))
                            @@ ("bordercolor" :> Color(colors.gridColor))))
        @@ ("title" :> ("font" :> Font(colors.textColor, 16)))

\* createThemedLayout(customLayout) with the colors getCurrentThemeColors()
\* gave: each of the four objects takes the caller's properties over its
\* own, and then ...customLayout puts every property of customLayout,
\* these four included, over the result.
createThemedLayout(colors, customLayout) ==
    LET theme == themed(colors)
        merged == [key \in DOMAIN theme |->
                      IF key \in MergedKeys
                      THEN Spread(theme[key], PropertyOf(customLayout, key))
                      ELSE theme[key]]
    IN  Spread(merged, customLayout)

\* getCurrentThemeColors(): the defaults where there is no document.
currentThemeColors(document) ==
    IF document.server THEN getDefaultThemeColors ELSE getCurrentThemeColors(document)

\* ------------------------------------------------------- layout, inputs
Documents ==
    {[server |-> TRUE] @@ UnstyledPage}
        \cup {[server |-> FALSE] @@ page : page \in Pages}

\* What a caller may give for one key: nothing, or an object.
Given(key, objects) == {EmptyObject} \cup {key :> object : object \in objects}

CustomLayouts ==
    {x @@ y @@ l @@ t @@ h :
        x \in Given("xaxis", {EmptyObject, "title" :> Text("Year"),
                              "gridcolor" :> Color(BLACK),
                              ("title" :> Text("Year")) @@ ("tickfont" :> Font(BLACK, 9))}),
        y \in Given("yaxis", {"title" :> Text("Sales")}),
        l \in Given("legend", {"bgcolor" :> Text("white")}),
        t \in Given("title", {"text" :> Text("Sales by year")}),
        h \in Given("height", {Scalar(Number(400))})}

\* ------------------------------------------------------ layout, actions
CreateThemedLayout ==
    /\ ~layout.done
    /\ layout' = [layout EXCEPT
            !.done = TRUE,
            !.out = createThemedLayout(currentThemeColors(layout.document),
                                       layout.customLayout)]
    /\ UNCHANGED <<holderVars, validatorVars, generatorVars, palette>>

InitLayout ==
    /\ HolderIdle /\ ValidatorIdle /\ GeneratorIdle /\ palette = NoPalette
    /\ \E document \in Documents, customLayout \in CustomLayouts :
          layout = [NoLayout EXCEPT !.document = document,
                                    !.customLayout = customLayout]

NextLayout == CreateThemedLayout

SpecLayout == InitLayout /\ [][NextLayout]_vars

\* ------------------------------------------------- vocabulary of the claims
\* The color-theme classes on the root element (every theme-* but theme-dark).
ColorThemeClasses(cl) == {cl[i] : i \in {j \in DOMAIN cl : IsColorThemeClass(cl[j])}}
\* Every theme-* class on the root element.
ThemeClasses(cl) == {cl[i] : i \in {j \in DOMAIN cl : StartsWith(cl[j], THEME_PREFIX)}}
ThemeClassOf(id) == THEME_PREFIX \o id
Clean(s) == \A i \in DOMAIN s : s[i] \in AllowedChars
\* Storage holds exactly what the given state says.
Mirrors(st, sto) ==
    /\ sto.theme = Item(IF st.darkMode THEN DARK ELSE LIGHT)
    /\ sto.selected = Item(JsString(st.colorTheme))
Untouched == state' = state /\ classList' = classList /\ storage' = storage

\* C1: setDarkMode with the current darkMode value dispatches no event and
\* changes neither memory, class markers nor storage; with the opposite
\* value it dispatches exactly one 'theme-changed' event.
C1_SetDarkModeNotifiesOnce ==
    [][\A isDark \in BOOLEAN :
         SetDarkMode(isDark) =>
            IF isDark = state.darkMode
            THEN lastCall'.events = 0 /\ Untouched
            ELSE lastCall'.events = 1]_vars

\* What a setColorTheme(themeId) step does when the input is taken: with a
\* sanitized id other than colorTheme it updates memory, leaves
\* theme-<sanitized id> as the only color class, persists (seen in storage
\* when storage works) and dispatches one event; otherwise nothing at all.
SetColorThemeEffect(themeId) ==
    LET sanitized == Str(Sanitize(themeId.s))
    IN  IF sanitized # state.colorTheme
        THEN /\ state' = [state EXCEPT !.colorTheme = sanitized]
             /\ Contains(classList', ThemeClassOf(sanitized.s))
             /\ ColorThemeClasses(classList') \subseteq {ThemeClassOf(sanitized.s)}
             /\ storageMode = "ok" => Mirrors(state', storage')
             /\ lastCall'.events = 1
        ELSE lastCall'.events = 0 /\ Untouched

\* C2 (as stated): for every string input of setColorTheme, if the sanitized
\* id differs from colorTheme the call updates memory, replaces the
\* theme-<id> class, persists and dispatches exactly one event; otherwise it
\* changes nothing and dispatches nothing.
C2_EveryStringInput ==
    [][\A themeId \in StringInputs :
         (revision = "markup" /\ lastCall'.op = "setColorTheme" /\ SetColorTheme(themeId))
            => SetColorThemeEffect(themeId)]_vars

\* C2 (amended): the same, for every non-empty string input.
C2_NonEmptyStringInput ==
    [][\A themeId \in StringInputs :
         (/\ revision = "markup" /\ themeId.s # << >>
          /\ lastCall'.op = "setColorTheme" /\ SetColorTheme(themeId))
            => SetColorThemeEffect(themeId)]_vars

\* C2 witness: a setColorTheme call whose input had to be sanitized has
\* replaced the color class of another theme and dispatched its one event.
C2_Witness ==
    /\ revision = "markup" /\ storageMode = "ok"
    /\ lastCall.op = "setColorTheme" /\ lastCall.events = 1
    /\ state.colorTheme = Str(Sanitize(EVIL))
    /\ ColorThemeClasses(classList) = {ThemeClassOf(Sanitize(EVIL))}
    /\ storage.selected = Item(Sanitize(EVIL))

\* C3: whatever string setColorTheme is given, the id the call leaves in
\* memory, in the applied theme-<id> class and in storage has only characters
\* of [A-Za-z0-9_-], and differs from an input that has any other character.
C3_OnlyAllowedCharacters ==
    [][\A themeId \in StringInputs :
         (revision = "markup" /\ lastCall'.op = "setColorTheme" /\ SetColorTheme(themeId)) =>
            /\ themeId.s # << >> =>
                 /\ Clean(state'.colorTheme.s)
                 /\ ~Clean(themeId.s) => state'.colorTheme # themeId
            /\ ~Untouched =>
                 /\ Clean(state'.colorTheme.s)
                 /\ \A cls \in ColorThemeClasses(classList') :
                        /\ Clean(Replace(cls, THEME_PREFIX, << >>))
                        /\ ~Clean(themeId.s) => cls # ThemeClassOf(themeId.s)
                 /\ storage'.selected # storage.selected =>
                        /\ Clean(storage'.selected.s)
                        /\ ~Clean(themeId.s) => storage'.selected.s # themeId.s]_vars

\* C3 witness: "evil;</style>" was set and what is stored and applied is the
\* filtered id.
C3_Witness ==
    /\ revision = "markup" /\ storageMode = "ok"
    /\ lastCall.op = "setColorTheme" /\ lastCall.events = 1
    /\ state.colorTheme.s = Sanitize(EVIL) /\ Sanitize(EVIL) # EVIL
    /\ Contains(classList, ThemeClassOf(Sanitize(EVIL)))
    /\ ~Contains(classList, ThemeClassOf(EVIL))
    /\ Mirrors(state, storage)

\* C4: setColorTheme with a non-string or empty value does not throw,
\* dispatches no event and leaves memory, class markers and storage unchanged.
C4_RejectsNonStringOrEmpty ==
    [][\A themeId \in Inputs :
         ((themeId.t # "string" \/ themeId.s = << >>) /\ SetColorTheme(themeId)) =>
            ~lastCall'.threw /\ lastCall'.events = 0 /\ Untouched]_vars

\* colorTheme names a theme the site ships and the root element has at most
\* one color class, which names such a theme too.
KnownThemeApplied(st, cl) ==
    /\ st.colorTheme.t = "string" /\ st.colorTheme.s \in themeHues
    /\ Cardinality(ColorThemeClasses(cl)) <= 1
    /\ \A cls \in ColorThemeClasses(cl) : Replace(cls, THEME_PREFIX, << >>) \in themeHues

\* C5: colorTheme and the applied class always name a known theme, and the
\* root element has at most one theme-<id> color class: setColorTheme never
\* applies an id that names no theme.
C5_OnlyKnownThemes ==
    [][\A themeId \in Inputs :
         (revision = "markup" /\ KnownThemeApplied(state, classList) /\ SetColorTheme(themeId))
            => KnownThemeApplied(state', classList')]_vars

\* C6: changing the color theme (setColorTheme with any input, applyTheme of
\* the themes utility) never changes darkMode and never adds or removes the
\* theme-dark class.
C6_ColorThemeLeavesDarkAlone ==
    [][((revision = "markup" /\ lastCall'.op = "setColorTheme") \/ lastCall'.op = "applyTheme")
          => /\ state'.darkMode = state.darkMode
             /\ Contains(classList', THEME_DARK) <=> Contains(classList, THEME_DARK)]_vars

\* C7: setDarkMode and toggleDarkMode never change colorTheme and leave the
\* set of theme-<id> color classes on the root element as it was.
C7_DarkModeLeavesColorAlone ==
    [][(revision = "markup" /\ lastCall'.op \in {"setDarkMode", "toggleDarkMode"})
          => /\ state'.colorTheme = state.colorTheme
             /\ ColorThemeClasses(classList') = ColorThemeClasses(classList)]_vars

\* C8: after every successful mutation by a setter the root element has
\* theme-dark exactly when darkMode is true and carries exactly one other
\* theme-* class, theme-<colorTheme>.
C8_ClassesMirrorMemory ==
    [][(/\ lastCall'.op \in {"setColorTheme", "setDarkMode", "toggleDarkMode"}
        /\ ~lastCall'.threw /\ state' # state)
          => /\ Contains(classList', THEME_DARK) <=> state'.darkMode
             /\ ThemeClasses(classList') \ {THEME_DARK}
                   = {ThemeClassOf(JsString(state'.colorTheme))}]_vars

\* C9: with working storage, after every successful setter call and after
\* every observer callback (also one caused by a class change made outside
\* the holder) 'theme' is 'dark' or 'light' as darkMode says and
\* 'selected-theme' equals colorTheme.
C9_StorageMirrorsMemory ==
    [][(/\ revision = "markup" /\ storageMode = "ok"
        /\ \/ lastCall'.op = "observer"
           \/ /\ lastCall'.op \in {"setColorTheme", "setDarkMode", "toggleDarkMode"}
              /\ state' # state)
          => Mirrors(state', storage')]_vars

\* C9 witness: the themes utility changed the class and the stored id behind
\* the holder, and the observer callback has written the holder's state back.
C9_Witness ==
    /\ revision = "markup" /\ storageMode = "ok" /\ instance
    /\ lastCall.op = "observer"
    /\ ~Contains(classList, ThemeClassOf(JsString(state.colorTheme)))
    /\ ColorThemeClasses(classList) # {}
    /\ Mirrors(state, storage)

\* C10: when storage is unavailable or every access to it throws, the public
\* operations complete without an exception, and an effective setter call
\* has updated memory, applied the classes and dispatched the notification.
C10_StorageFailureIsContained ==
    [][(/\ revision = "markup" /\ storageMode \in {"undefined", "denied"}
        /\ lastCall'.op \in {"getInstance", "setColorTheme", "setDarkMode", "toggleDarkMode"})
          => /\ ~lastCall'.threw
             /\ (lastCall'.op # "getInstance" /\ state' # state) =>
                  /\ lastCall'.events = 1
                  /\ Contains(classList', ThemeClassOf(JsString(state'.colorTheme)))
                  /\ Contains(classList', THEME_DARK) <=> state'.darkMode]_vars

\* C11: getState returns a copy: it holds the state of the moment of the
\* call, and writing into the returned object never changes the holder's
\* state, so later getters still return what the setters set.
C11_GetStateReturnsCopy ==
    [][/\ lastCall'.op = "getState" =>
            refs'.got.kind = "copy" /\ refs'.got.val = state /\ state' = state
       /\ lastCall'.op = "mutateReturned" => state' = state]_vars

\* The caller holds an object that now differs from the holder's state.
C11_Witness ==
    /\ lastCall.op = "mutateReturned"
    /\ refs.got.kind = "copy"
    /\ refs.got.val.darkMode # state.darkMode
    /\ refs.got.val.colorTheme # state.colorTheme

\* C12: the state carried by a 'theme-changed' event is a copy: a listener
\* writing into event.detail changes nothing of the holder's state.
C12_EventDetailIsCopy ==
    [][lastCall'.op = "mutateDetail" => state' = state]_vars

\* C13: in the markup-trusting revision, constructing the holder sets
\* darkMode to whether the root element carries theme-dark and colorTheme
\* to the id of the theme-<id> class on the root element ('default' when
\* there is none); construction changes neither the class markers nor the
\* persisted values.  (Seen on first calls of getInstance and of the
\* reading helpers, which construct and do nothing else.)
C13_ConstructionMirrorsMarkup ==
    [][(/\ revision = "markup" /\ ~instance /\ instance'
        /\ lastCall'.op \in {"getInstance", "getCurrentTheme"}) =>
          LET ids == {Str(Replace(cls, THEME_PREFIX, << >>)) :
                          cls \in ColorThemeClasses(classList)}
          IN  /\ state'.darkMode = Contains(classList, THEME_DARK)
              /\ IF ids = {} THEN state'.colorTheme = Str(DEFAULT)
                  ELSE state'.colorTheme \in ids
              /\ classList' = classList
              /\ storage' = storage]_vars

\* A holder just constructed on a dark ocean-blue page, nothing persisted.
C13_Witness ==
    /\ revision = "markup" /\ instance /\ lastCall.op = "getInstance"
    /\ storageMode = "ok" /\ storage.theme = NoItem /\ storage.selected = NoItem
    /\ state = [darkMode |-> TRUE, colorTheme |-> Str(OCEAN_BLUE)]
    /\ Contains(classList, THEME_DARK)

\* C14: the holder is constructed once: an instance, once there, stays; a
\* later getInstance constructs nothing and changes nothing; the legacy
\* helpers work on that same instance, getCurrentTheme returning the
\* colorTheme the holder has and applyTheme doing what setColorTheme does.
C14_OneInstance ==
    [][/\ instance => instance'
       /\ (instance /\ lastCall'.op \in {"getInstance", "getCurrentTheme"}) =>
              /\ state' = state /\ classList' = classList
              /\ storage' = storage /\ observing' = observing
       /\ (instance /\ lastCall'.op = "getCurrentTheme") =>
              lastCall'.theme = JsString(state.colorTheme)
       /\ (instance /\ lastCall'.op = "legacyApplyTheme") =>
              \E themeId \in LegacyInputs :
                 LET w == IF revision = "markup" THEN setColorTheme(World, themeId)
                          ELSE setColorTheme_v1(World, themeId)
                 IN  /\ state' = w.state /\ classList' = w.classList
                     /\ storage' = w.storage]_vars

\* getCurrentTheme returns the id set through the holder although the root
\* element, changed behind the holder, carries no color class any more.
C14_Witness ==
    /\ revision = "markup" /\ instance
    /\ lastCall.op = "getCurrentTheme" /\ lastCall.theme = OCEAN_BLUE
    /\ ColorThemeClasses(classList) = {}

\* The classes on the root element, whatever their order.
Classes(cl) == {cl[i] : i \in DOMAIN cl}

\* C15: toggleDarkMode behaves as setDarkMode(not current): it flips
\* darkMode, returns the new value and dispatches exactly one event; a
\* second toggle right after it restores the original darkMode, the
\* original classes of the root element and the original persisted values.
C15_ToggleTwiceRestores ==
    [][lastCall'.op = "toggleDarkMode" =>
          LET after == [state |-> state', classList |-> classList',
                        storage |-> storage', observing |-> observing',
                        pending |-> pending', refs |-> refs',
                        events |-> 0, threw |-> FALSE, heard |-> NoHeard]
              again == IF revision = "markup"
                       THEN setDarkMode(after, ~state'.darkMode)
                       ELSE setDarkMode_v1(after, ~state'.darkMode)
          IN  /\ state'.darkMode = ~state.darkMode
              /\ lastCall'.ret = state'.darkMode
              /\ lastCall'.events = 1
              /\ again.state.darkMode = state.darkMode
              /\ Classes(again.classList) = Classes(classList)
              /\ again.storage = storage]_vars

\* ------------------------------------ vocabulary of the validator's claims
\* How many of the messages have the given text.
CountOf(messages, text) ==
    Cardinality({i \in DOMAIN messages : messages[i].text = text})
Elements(seq) == {seq[i] : i \in DOMAIN seq}
\* Exactly one error with the text exactly when the field is missing.
Reported(missing, text) ==
    CountOf(result.errors, text) = IF missing THEN 1 ELSE 0

\* Every field the structural pass looks at is there.
StructurallyComplete(th) ==
    /\ th.accent.has /\ th.accent.light # Missing
    /\ th.accent.regular # Missing /\ th.accent.dark # Missing
    /\ th.charts.has /\ th.charts.primary # << >>
    /\ th.charts.categorical # << >> /\ th.charts.gradient # << >>

\* '#' followed by exactly six hexadecimal digits.
WellFormed(color) ==
    /\ Len(color) = 7 /\ color[1] = "#"
    /\ \A i \in 2..7 : IsHexChar(color[i])

\* The color values a theme carries.
ColorsOf(th) ==
    ((IF th.accent.has THEN {th.accent.light, th.accent.regular, th.accent.dark} ELSE {})
     \cup (IF th.gray.has THEN {th.gray.steps[k] : k \in GrayKeys} ELSE {})
     \cup (IF th.charts.has
           THEN Elements(th.charts.primary) \cup Elements(th.charts.categorical)
                  \cup Elements(th.charts.gradient)
           ELSE {}))
    \ {Missing}

\* C16: for a structurally complete theme validateTheme runs the contrast
\* check for all five critical pairs, also when a gray step or the whole
\* gray ramp is absent.
C16_AllFivePairsChecked ==
    (result.done /\ StructurallyComplete(loadedTheme)) =>
        Elements(result.checked) =
            {PRIMARY_LIGHT, SECONDARY_LIGHT, ACCENT_ON_BACKGROUND,
             PRIMARY_DARK, SECONDARY_DARK}

\* C17: a theme carrying a color value that is not '#' and six hexadecimal
\* digits is invalid and has an error.
C17_MalformedColorRejected ==
    (result.done /\ \E color \in ColorsOf(loadedTheme) : ~WellFormed(color)) =>
        ~result.isValid /\ result.errors # << >>

\* C18 (as stated): each missing accent sub-color and each missing or empty
\* chart list has exactly one error naming it, whatever the other fields.
C18_EveryMissingFieldNamed ==
    result.done =>
        /\ loadedTheme.accent.light = Missing =>
               CountOf(result.errors, "Missing accent.light color") = 1
        /\ loadedTheme.accent.regular = Missing =>
               CountOf(result.errors, "Missing accent.regular color") = 1
        /\ loadedTheme.accent.dark = Missing =>
               CountOf(result.errors, "Missing accent.dark color") = 1
        /\ loadedTheme.charts.primary = << >> =>
               CountOf(result.errors, "Missing primary chart colors") = 1
        /\ loadedTheme.charts.categorical = << >> =>
               CountOf(result.errors, "Missing categorical chart colors") = 1
        /\ loadedTheme.charts.gradient = << >> =>
               CountOf(result.errors, "Missing gradient chart colors") = 1

\* C18 (amended): with the accent object present each missing sub-color has
\* exactly one error naming it and each present one has none, whatever the
\* other fields; likewise for the chart lists with the charts object
\* present; an absent accent or charts object has exactly one error naming
\* the object and none naming its fields.
C18_MissingFieldNamedWithinPresentObject ==
    result.done =>
        LET accent == loadedTheme.accent
            charts == loadedTheme.charts
        IN  /\ Reported(~accent.has, "Missing accent color definition")
            /\ Reported(accent.has /\ accent.light = Missing, "Missing accent.light color")
            /\ Reported(accent.has /\ accent.regular = Missing,
                        "Missing accent.regular color")
            /\ Reported(accent.has /\ accent.dark = Missing, "Missing accent.dark color")
            /\ Reported(~charts.has, "Missing chart colors definition")
            /\ Reported(charts.has /\ charts.primary = << >>,
                        "Missing primary chart colors")
            /\ Reported(charts.has /\ charts.categorical = << >>,
                        "Missing categorical chart colors")
            /\ Reported(charts.has /\ charts.gradient = << >>,
                        "Missing gradient chart colors")

\* A theme without accent.light and without gradient colors, validated:
\* two errors, one for each.
C18_Witness ==
    /\ result.done
    /\ loadedTheme.accent.has /\ loadedTheme.accent.light = Missing
    /\ loadedTheme.accent.regular # Missing /\ loadedTheme.accent.dark # Missing
    /\ loadedTheme.charts.has /\ loadedTheme.charts.gradient = << >>
    /\ loadedTheme.charts.primary # << >> /\ loadedTheme.charts.categorical # << >>
    /\ Len(result.errors) = 2
    /\ CountOf(result.errors, "Missing gradient chart colors") = 1

\* C19: when the structure of a theme has an error, the accessibility and
\* harmony passes do not run: the errors are the structural errors, there
\* is no warning and no pair was checked.
C19_PassesNeedCompleteStructure ==
    (result.done /\ ~StructurallyComplete(loadedTheme)) =>
        /\ result.errors = validateThemeStructure(loadedTheme)
        /\ result.errors # << >>
        /\ \A i \in DOMAIN result.errors : result.errors[i].name = ""
        /\ CountOf(result.errors,
                   "Cannot validate accessibility without complete color definitions") = 0
        /\ result.warnings = << >>
        /\ result.checked = << >>

\* A theme whose accent colors would earn harmony warnings and whose gray
\* ramp is absent, validated with its gradient list missing: one error.
C19_Witness ==
    /\ result.done
    /\ loadedTheme.accent.has /\ loadedTheme.accent.light = ACCENT_LIGHT
    /\ loadedTheme.accent.regular = PALE_GRAY /\ loadedTheme.accent.dark = ACCENT_DARK
    /\ ~loadedTheme.gray.has
    /\ loadedTheme.charts.has /\ loadedTheme.charts.gradient = << >>
    /\ Len(loadedTheme.charts.primary) = 1 /\ loadedTheme.charts.categorical # << >>
    /\ Len(result.errors) = 1 /\ result.warnings = << >>

\* C20: a checked pair has exactly one outcome by its ratio: one error and
\* no warning below 4.5, one warning and no error from 4.5 up to but not
\* including 7.0, neither from 7.0 on.
C20_OneOutcomePerPair ==
    probe.done =>
        LET n == probe.ratio.n
            d == probe.ratio.d
        IN  IF 2 * n < 9 * d
            THEN Len(probe.errors) = 1 /\ probe.warnings = << >>
                 /\ probe.errors[1].text = "fails WCAG AA"
            ELSE IF n < 7 * d
            THEN probe.errors = << >> /\ Len(probe.warnings) = 1
                 /\ probe.warnings[1].text = "passes AA but fails AAA"
            ELSE probe.errors = << >> /\ probe.warnings = << >>

\* A pair whose ratio is exactly 4.5: a warning, no error.
C20_Witness ==
    /\ probe.done /\ 2 * probe.ratio.n = 9 * probe.ratio.d
    /\ probe.errors = << >> /\ Len(probe.warnings) = 1

\* C21: validateTheme never throws, whatever fields the theme lacks and
\* whatever its color strings are; a color hexToRgb cannot parse counts as
\* luminance 0 and the checks of the theme are run and reported all the
\* same.
C21_NeverThrows ==
    result.done =>
        /\ ~result.threw
        /\ (/\ StructurallyComplete(loadedTheme) /\ loadedTheme.gray.has
            /\ ~hexToRgb(loadedTheme.accent.regular).ok) =>
               /\ Len(result.checked) \in {3, 5}
               /\ ACCENT_ON_BACKGROUND \in Elements(result.checked)
               /\ \A i \in DOMAIN result.errors :
                      result.errors[i].name # ACCENT_ON_BACKGROUND
               /\ \A i \in DOMAIN result.warnings :
                      result.warnings[i].name # ACCENT_ON_BACKGROUND
               /\ CountOf(result.warnings,
                          "Accent regular should be lighter than dark") = 1
               /\ CountOf(result.warnings,
                          "Accent light should be lighter than regular") = 0

\* A complete theme with all gray steps whose accent.regular cannot be
\* parsed, validated: all five pairs checked.
C21_Witness ==
    /\ result.done /\ ~result.threw
    /\ StructurallyComplete(loadedTheme) /\ loadedTheme.gray.has
    /\ loadedTheme.accent.regular = SHORT_HEX
    /\ Len(result.checked) = 5

\* C22: isValid is true exactly when there is no error; warnings do not
\* make a theme invalid.
C22_ValidIffNoErrors ==
    (result.done /\ ~result.threw) =>
        /\ result.isValid <=> (result.errors = << >>)
        /\ (result.errors = << >> /\ result.warnings # << >>) => result.isValid

\* A valid theme with a contrast warning, both harmony warnings about the
\* accent colors and the warning about the primary chart colors.
C22_Witness ==
    /\ result.done /\ result.isValid /\ result.errors = << >>
    /\ CountOf(result.warnings, "passes AA but fails AAA") >= 1
    /\ CountOf(result.warnings, "Accent regular should be lighter than dark") = 1
    /\ CountOf(result.warnings,
               "Consider adding more primary chart colors for better variety") = 1

\* -------------------------------------- vocabulary of the generator's claims
\* The record and the text of the last call of the generator.
LastTheme == subjects[gen.who].theme
\* The values of the declarations whose name starts with the given piece.
ValuesOf(out, prefix) ==
    LET named == SelectSeq(out.decls, LAMBDA d : d.name[1] = prefix)
    IN  [i \in DOMAIN named |-> named[i].value]
Generated == gen.calls > 0 /\ ~gen.last.threw
\* Slot i (from 0) of a list of n >= 1 entries is entry i mod n.
Cycles(slots, list) ==
    \A i \in DOMAIN slots : slots[i] = list[((i - 1) % Len(list)) + 1]
AllFallback(slots) == \A i \in DOMAIN slots : slots[i] = FALLBACK

\* C23 (as stated): 5 primary, 8 categorical and 3 gradient slots; for a
\* list of n >= 1 entries slot i is entry i mod n, for an empty list every
\* slot is '#7611a6'.
C23_SlotsCycleThroughList ==
    Generated =>
        LET primary == ValuesOf(gen.last, "--chart-color-")
            categorical == ValuesOf(gen.last, "--chart-categorical-")
            gradient == ValuesOf(gen.last, "--gradient-stop-")
            charts == LastTheme.charts
        IN  /\ Len(primary) = 5 /\ Len(categorical) = 8 /\ Len(gradient) = 3
            /\ IF charts.primary = << >> THEN AllFallback(primary)
               ELSE Cycles(primary, charts.primary)
            /\ IF charts.categorical = << >> THEN AllFallback(categorical)
               ELSE Cycles(categorical, charts.categorical)
            /\ IF charts.gradient = << >> THEN AllFallback(gradient)
               ELSE Cycles(gradient, charts.gradient)

\* Slot i (from 0) is entry i mod n when that entry is a non-empty string,
\* '#7611a6' when it is not.
CyclesOrFallsBack(slots, list) ==
    \A i \in DOMAIN slots :
        LET entry == list[((i - 1) % Len(list)) + 1]
        IN  slots[i] = IF entry = Missing THEN FALLBACK ELSE entry

\* C23 (amended): 5 primary, 8 categorical and 3 gradient slots; for a list
\* of n >= 1 entries slot i is entry i mod n, except that an entry that is
\* empty or not there gives '#7611a6'; for an empty list every slot is
\* '#7611a6'.
C23_SlotsCycleOrFallBack ==
    Generated =>
        LET primary == ValuesOf(gen.last, "--chart-color-")
            categorical == ValuesOf(gen.last, "--chart-categorical-")
            gradient == ValuesOf(gen.last, "--gradient-stop-")
            charts == LastTheme.charts
        IN  /\ Len(primary) = 5 /\ Len(categorical) = 8 /\ Len(gradient) = 3
            /\ IF charts.primary = << >> THEN AllFallback(primary)
               ELSE CyclesOrFallsBack(primary, charts.primary)
            /\ IF charts.categorical = << >> THEN AllFallback(categorical)
               ELSE CyclesOrFallsBack(categorical, charts.categorical)
            /\ IF charts.gradient = << >> THEN AllFallback(gradient)
               ELSE CyclesOrFallsBack(gradient, charts.gradient)

\* Three categorical colors fill the eight slots as c0,c1,c2,c0,c1,c2,c0,c1
\* and a primary list whose second entry is empty has the fallback in its
\* slots 1 and 4.
C23_Witness ==
    /\ Generated
    /\ LastTheme.charts.categorical = <<ACCENT_REGULAR, ACCENT_LIGHT, ACCENT_DARK>>
    /\ ValuesOf(gen.last, "--chart-categorical-") =
          <<ACCENT_REGULAR, ACCENT_LIGHT, ACCENT_DARK, ACCENT_REGULAR, ACCENT_LIGHT,
            ACCENT_DARK, ACCENT_REGULAR, ACCENT_LIGHT>>
    /\ LastTheme.charts.primary = <<ACCENT_REGULAR, Missing, ACCENT_DARK>>
    /\ ValuesOf(gen.last, "--chart-color-") =
          <<ACCENT_REGULAR, FALLBACK, ACCENT_DARK, ACCENT_REGULAR, FALLBACK>>

\* C24 (as stated): with a gray ramp there is one variable for each of
\* eleven gray steps, carrying the theme's value for the step; without a
\* gray ramp there is no gray variable.
C24_ElevenGraySteps ==
    Generated =>
        LET grays == ValuesOf(gen.last, "--gray-")
        IN  IF LastTheme.gray.has
            THEN /\ Len(grays) = 11
                 /\ \A i \in DOMAIN grays : grays[i] = LastTheme.gray.steps[GrayStepKeys[i]]
            ELSE grays = << >>

\* C24 (amended): with a gray ramp there is one variable for each of the
\* twelve steps 0, 50, 100, ..., 900, 999, in that order, carrying the
\* theme's value for the step unchanged, or the text undefined for a step
\* the ramp lacks; without a gray ramp there is no gray variable.
C24_TwelveGraySteps ==
    Generated =>
        LET named == SelectSeq(gen.last.decls, LAMBDA d : d.name[1] = "--gray-")
            steps == LastTheme.gray.steps
        IN  IF LastTheme.gray.has
            THEN /\ Len(named) = 12
                 /\ \A i \in DOMAIN named :
                        /\ named[i].name = <<"--gray-", GrayStepKeys[i]>>
                        /\ named[i].value = IF steps[GrayStepKeys[i]] = Missing
                                            THEN <<"undefined">>
                                            ELSE steps[GrayStepKeys[i]]
            ELSE named = << >>

\* A theme with only the two ends of the ramp, generated: twelve gray
\* variables, ten of them undefined.
C24_Witness ==
    /\ Generated /\ LastTheme.gray.has /\ LastTheme.gray.steps = EndsOnly
    /\ Len(ValuesOf(gen.last, "--gray-")) = 12
    /\ ValuesOf(gen.last, "--gray-")[2] = <<"undefined">>
    /\ ValuesOf(gen.last, "--gray-")[12] = FullRamp["999"]

\* C25: getContrastRatio gives the same ratio for a pair of colors in
\* either order, never gives a ratio below 1, and gives exactly 1 for a
\* color against itself.
C25_ContrastSymmetric ==
    probe.measured =>
        /\ probe.forward = probe.reverse
        /\ probe.forward.n >= probe.forward.d
        /\ probe.same.n = probe.same.d

\* Black on white, the darker color first: 21 to 1 in either order.
C25_Witness ==
    /\ probe.measured /\ pair.fg = BLACK /\ pair.bg = WHITE
    /\ probe.forward = Ratio(105000000, 5000000)
    /\ probe.reverse = Ratio(105000000, 5000000)

SetterOps == {"setColorTheme", "setDarkMode", "toggleDarkMode"}
Notified(call) == call.op \in SetterOps /\ ~call.threw /\ call.events > 0

\* C27: in a setter call that goes through, memory, the class markers and
\* storage are updated before the notification and nothing is changed
\* after it: what a 'theme-changed' listener finds in memory and on the
\* root element is a new state and is what the setter leaves on return,
\* the classes name the new color theme and dark mode (theme-dark also
\* stands when the color theme is called dark), and with a working
\* storage both entries already hold the new values.
C27_ListenerFindsNewState ==
    [][Notified(lastCall') =>
          LET heard == lastCall'.heard
              id == JsString(state'.colorTheme)
          IN  /\ state' # state
              /\ heard.state = state'
              /\ heard.classList = classList'
              /\ heard.storage = storage'
              /\ Contains(heard.classList, THEME_PREFIX \o id)
              /\ Contains(heard.classList, THEME_DARK) = (state'.darkMode \/ id = DARK)
              /\ storageMode = "ok" =>
                     /\ heard.storage.theme = Item(IF state'.darkMode THEN DARK ELSE LIGHT)
                     /\ heard.storage.selected = Item(id)]_vars

\* setDarkMode(true) has notified on a page whose storage works: the
\* listener found dark mode in memory, theme-dark on the root element and
\* 'dark' in storage.
C27_Witness ==
    /\ Notified(lastCall) /\ lastCall.op = "setDarkMode" /\ storageMode = "ok"
    /\ lastCall.heard.state.darkMode
    /\ Contains(lastCall.heard.classList, THEME_DARK)
    /\ lastCall.heard.storage.theme = Item(DARK)

\* C28: every call of generateIntelligentColorPalette returns, and returns
\* exactly max(traceCount, 5) colors, whatever the color set, the strategy
\* and the trace count, an empty categorical list included.
C28_PaletteReturns ==
    <>(/\ palette.pc = "returned"
       /\ Len(palette.out) = (IF palette.traceCount > 5 THEN palette.traceCount ELSE 5))

\* C29: the build is all-or-nothing.  A run that has failed has exit status
\* 1 and has not written themes.css, and it fails on the first theme file
\* that cannot be read, parsed or turned into CSS; themes.css is written
\* only by a run that has processed every theme file, with exit status 0,
\* and then holds one block per theme file, in the order of the files.
C29_AllOrNothing ==
    LET files == JsonFiles(themeFiles)
        bad == {i \in DOMAIN files :
                    Unusable(files[i]) \/ generateThemeCSS(WithId(files[i])).threw}
    IN  /\ build.pc = "failed" =>
              /\ build.exitCode = 1 /\ ~build.written /\ build.file = << >>
              /\ build.next \in bad /\ \A i \in bad : build.next <= i
        /\ build.pc = "files" => \A i \in bad : build.next <= i
        /\ build.written =>
              /\ build.pc = "done" /\ build.exitCode = 0 /\ bad = {}
              /\ Len(build.file) = Len(files)
              /\ \A i \in DOMAIN files :
                    /\ build.file[i].css = generateThemeCSS(WithId(files[i]))
                    /\ ~build.file[i].css.threw
        /\ build.pc = "done" => build.written

\* A run that failed on its second theme file: the block of the first was
\* built and nothing was written.
C29_Witness ==
    /\ build.pc = "failed" /\ build.next = 2 /\ Len(build.blocks) = 1
    /\ Len(JsonFiles(themeFiles)) = 3 /\ ~build.written

\* C30: for each of xaxis, yaxis, legend and title that customLayout gives,
\* the object of that key in the result has every theme-derived property,
\* with the theme's value wherever the caller's object does not name the
\* property and with the caller's value where it does.
C30_OverridesMergePerProperty ==
    layout.done =>
        LET theme == themed(currentThemeColors(layout.document))
        IN  \A key \in MergedKeys \cap DOMAIN layout.customLayout :
                \A name \in DOMAIN theme[key] :
                    /\ name \in DOMAIN layout.out[key]
                    /\ layout.out[key][name] =
                          IF name \in DOMAIN layout.customLayout[key]
                          THEN layout.customLayout[key][name]
                          ELSE theme[key][name]

====
